---------------------------- MODULE Spec2Model ----------------------------
(***************************************************************************)
(* SourceBox: the file bridge between the Python application and the       *)
(* script interpreter of a running Source-engine game.                     *)
(*                                                                         *)
(*   Spec         the calls made on a constructed bridge (spawn,           *)
(*                reinstall_awp_outputs, the Garry's Mod bridge,           *)
(*                start_listening, stop)                                   *)
(*   SpecListener the VScript listener polling the command file            *)
(*   SpecWatcher  start_listening / stop / the response watcher threads    *)
(*   FairWatcher  SpecWatcher with the scheduler's fairness                *)
(*   SpecStartup  construction of the bridge (game detection, cleanup)     *)
(*                followed by the start-up code of the two entry points    *)
(***************************************************************************)
EXTENDS Integers, Sequences, FiniteSets, TLC

(***************************************************************************)
(* Bounds of the model.                                                    *)
(***************************************************************************)
MaxCommands == 2
MaxSession == 2
MaxThreads == 2
MaxTime == 2

(***************************************************************************)
(* Values.                                                                 *)
(***************************************************************************)
None == "None"

\* a number field of the flat-text command: <<>> when the key is missing,
\* <<n>> when the text after the key is the integer n, JunkText when the
\* text after the key is no integer literal
NoField == <<>>
JunkText == <<0, 0>>
Num(n) == <<n>>

VARIABLES
    \* SourceBridge fields (source_bridge.py:105-119)
    game_path, vscripts_path, command_file, response_file, running,
    watcher_thread, last_response_time, active_game, command_count,
    session_id, gmod_bridge, mapbase_bridge,
    \* the file system (existing files and directories) and the clock
    files, dirs, now,
    \* the VScript listener's root table (python_listener.nut)
    listener,
    \* the watcher threads started so far
    threads,
    \* the application (Sourcebox.main / __main__ of source_bridge.py)
    app,
    \* the environment the constructor scans
    env,
    \* observations of the run
    obs,
    \* a call of _resolve_game_path: its arguments and what it returned
    resolve,
    \* a call of _parse_library_folders_vdf: the disk, the file, the result
    vdf,
    \* the root table of auto_spawner.nut
    spawner,
    \* the window of Sourcebox.main: current_scene and what goes with it
    scene,
    \* the last poll of the listener as an observer of the game saw it
    poll,
    \* the last call of spawn as its caller saw it
    call

vars == <<game_path, vscripts_path, command_file, response_file, running,
          watcher_thread, last_response_time, active_game, command_count,
          session_id, gmod_bridge, mapbase_bridge, files, dirs, now,
          listener, threads, app, env, obs, resolve, vdf, spawner, scene,
          poll, call>>

\* what the bridge's own calls never touch
elsewhere == <<resolve, vdf, spawner, scene, poll, call>>

(***************************************************************************)
(* Paths are sequences of components; os.path.join is concatenation and    *)
(* the empty path stands for Python's None.                                *)
(***************************************************************************)
NoPath == <<>>
Join(d, n) == d \o <<n>>

Exists(p) == p \in DOMAIN files \/ p \in dirs
FileText(p) == IF p \in DOMAIN files THEN files[p].text ELSE <<>>

\* open(path, 'w') followed by write/flush/fsync: "ok" replaces the text,
\* "perm" is a PermissionError raised by open (the file is left as it was),
\* "err" is an error raised after open truncated the file
WriteOutcomes == {"ok", "perm", "err"}
\* a faulty open that keeps the text of an existing file
WriteFileKeep(fs, p, c, outcome) ==
    IF p \in DOMAIN fs /\ fs[p].text # <<>> THEN fs
    ELSE IF outcome = "ok" THEN (p :> [text |-> <<c>>, mtime |-> now]) @@ fs
    ELSE fs

WriteFile(fs, p, c, outcome) ==
    CASE outcome = "ok" -> (p :> [text |-> <<c>>, mtime |-> now]) @@ fs
      [] outcome = "err" -> (p :> [text |-> <<>>, mtime |-> now]) @@ fs
      [] OTHER -> fs
RemoveFile(fs, p) == [q \in DOMAIN fs \ {p} |-> fs[q]]

(***************************************************************************)
(* The games of SUPPORTED_GAMES that the model distinguishes.              *)
(***************************************************************************)
GmodNames == {"Garry's Mod 9", "Garry's Mod 10", "Garry's Mod 11",
              "Garry's Mod 12", "Garry's Mod 13"}
\* a faulty test that takes no game for a Garry's Mod
IsGmodNameNever(name) == FALSE

\* "Garry's Mod" in active_game
IsGmodName(name) == name \in GmodNames

ModelPaths == {"", "props/srcbox/srcbox.mdl", "models/a\"b"}
Distances == {0, 200}


(***************************************************************************)
(* What the constructor leaves in the bridge's fields, by kind of active   *)
(* game.  One Steam library is modelled; its steamapps directory is the    *)
(* root of every path.                                                     *)
(***************************************************************************)

\* _setup_game_path for a supported game, here Team Fortress 2
TF2 == "Team Fortress 2"
TF2ScriptData == <<"common", TF2, "tf", "scriptdata">>
TF2VScripts == <<"common", TF2, "tf", "scripts", "vscripts">>

\* MapbaseBridge.__init__ for a mod directory
MapbaseMod == "mbmod"
MapbaseModPath == <<"sourcemods", MapbaseMod>>
MapbaseScriptData(mod_path) == Join(mod_path, "vscript_io")
MapbaseVScripts(mod_path) == mod_path \o <<"scripts", "vscripts">>

\* a sourcemod without VScript
PlainMod == "plainmod"
PlainModPath == <<"sourcemods", PlainMod>>

\* the mod directory of each Garry's Mod (game_dir / install_dir)
GmodModPath(name) ==
    CASE name = "Garry's Mod 9" -> <<"sourcemods", "gmod9">>
      [] name = "Garry's Mod 10" -> <<"sourcemods", "garrysmod10classic">>
      [] name = "Garry's Mod 11" -> <<"sourcemods", "garrysmod">>
      [] name = "Garry's Mod 12" -> <<"sourcemods", "garrysmod12">>
      [] name = "Garry's Mod 13" -> <<"common", "GarrysMod", "garrysmod">>

NoGmodBridge ==
    [exists |-> FALSE, data_path |-> NoPath, command_file |-> NoPath,
     response_file |-> NoPath, session_id |-> 0, command_id |-> 0]

\* GModBridge.is_connected
is_connected(gb) == gb.data_path # NoPath /\ Exists(gb.data_path)

(***************************************************************************)
(* The flat-text command.  spawn formats it by hand, GModBridge with       *)
(* json.dumps; the listener scrapes it with ExtractNumber / ExtractString. *)
(***************************************************************************)
\* model_path.replace('\\', '\\\\').replace('"', '\\"') on ModelPaths
SafeModelPath(m) == IF m = "models/a\"b" THEN "models/a\\\"b" ELSE m

Command(cmd, model, distance, id, session) ==
    [command |-> cmd, model |-> model, distance |-> distance, id |-> id,
     session |-> session]

\* num_str.tointeger().  The positive session numbers of the model stand
\* for the 13-digit values int(time.time() * 1000) + r that a bridge
\* writes; ids are small.  A listener whose integers are 64 bits wide
\* reads the number as written; one with 32-bit integers gets the largest
\* integer for every number beyond it
LongMax == 2147483647

tointeger(n, key, wide) ==
    IF wide \/ key # "session" \/ n <= 0 THEN n ELSE LongMax

\* the text from the key's colon to the next ',', '}' or ' ', as an integer;
\* 0 when the key is missing or the text is no integer
ExtractNumber(json_str, key, wide) ==
    LET f == json_str[key]
    IN  IF Len(f) = 1 THEN tointeger(f[1], key, wide) ELSE 0

\* the text between the first two double quotes after the key; a value
\* holding an escaped quote is cut at that quote.  null and "" are both ""
ExtractString(json_str, key) ==
    LET f == json_str[key] IN IF f = "models/a\\\"b" THEN "models/a\\" ELSE f

(***************************************************************************)
(* Observations.  cmd_polls / cmd_execs count the listener's polls and     *)
(* executions of the command file as it stands; they restart whenever the  *)
(* file changes.  seen_session is the session written in the last command  *)
(* polled that had a positive one.  lost holds the ids of the commands     *)
(* that the file held, not yet polled, when the bridge wrote the next one. *)
(***************************************************************************)
ListenerDir ==
    IF mapbase_bridge # NoPath THEN MapbaseScriptData(mapbase_bridge)
    ELSE TF2ScriptData
ListenerCommandFile == Join(ListenerDir, "python_command.txt")
ListenerResponseFile == Join(ListenerDir, "python_response.txt")

FileState(fs, p) == IF p \in DOMAIN fs THEN <<fs[p]>> ELSE <<>>
Touched(o, fs) ==
    IF FileState(fs, ListenerCommandFile) # FileState(files, ListenerCommandFile)
    THEN [o EXCEPT !.cmd_polls = 0, !.cmd_execs = 0]
    ELSE o
Ret(op, value, via, write) ==
    [op |-> op, value |-> value, via |-> via, write |-> write]
Written(op, id, session, file) ==
    [op |-> op, id |-> id, session |-> session, file |-> file]

(***************************************************************************)
(* GModBridge.spawn_model and GModBridge.ping.                             *)
(***************************************************************************)
GmodWrite(op, c, outcome) ==
    LET fs == WriteFile(files, gmod_bridge.command_file, c, outcome)
    IN  /\ gmod_bridge.command_id < MaxCommands
        /\ gmod_bridge' = [gmod_bridge EXCEPT !.command_id = @ + 1]
        /\ files' = fs
        /\ obs' = [Touched(obs, fs) EXCEPT
                     !.ret = Ret(op, IF outcome = "ok" THEN "True" ELSE "False",
                                 "gmod", outcome),
                     !.gm_written =
                         IF outcome = "ok"
                         THEN Append(@, Written(op, gmod_bridge.command_id + 1,
                                                gmod_bridge.session_id,
                                                gmod_bridge.command_file))
                         ELSE @]

spawn_model(op, model_path, distance, outcome) ==
    IF ~is_connected(gmod_bridge)
    THEN /\ obs' = [obs EXCEPT !.ret = Ret(op, "False", "gmod", "none")]
         /\ UNCHANGED <<gmod_bridge, files>>
    ELSE GmodWrite(op,
                   Command("spawn_model", model_path, Num(distance),
                           Num(gmod_bridge.command_id + 1),
                           Num(gmod_bridge.session_id)),
                   outcome)

ping(outcome) ==
    /\ gmod_bridge.exists
    /\ IF ~is_connected(gmod_bridge)
       THEN /\ obs' = [obs EXCEPT !.ret = Ret("ping", "False", "gmod", "none")]
            /\ UNCHANGED <<gmod_bridge, files>>
       ELSE GmodWrite("ping",
                      Command("ping", "", NoField,
                              Num(gmod_bridge.command_id + 1),
                              Num(gmod_bridge.session_id)),
                      outcome)
    /\ UNCHANGED <<elsewhere, game_path, vscripts_path, command_file, response_file,
                   running, watcher_thread, last_response_time, active_game,
                   command_count, session_id, mapbase_bridge, dirs, now,
                   listener, threads, app, env>>

(***************************************************************************)
(* SourceBridge.spawn, spawn_legacy and reinstall_awp_outputs.             *)
(***************************************************************************)
\* a faulty spawn whose handlers miss the errors raised after open()
SpawnWriteResultRaising(outcome) ==
    IF outcome = "ok" THEN "True"
    ELSE IF outcome = "perm" THEN "False" ELSE "raised"

\* what the except clauses of spawn turn a failed write into
SpawnWriteResult(outcome) == IF outcome = "ok" THEN "True" ELSE "False"

\* what the bare except of reinstall_awp_outputs turns a failed write into
ReinstallWriteResult(outcome) == IF outcome = "ok" THEN "True" ELSE "False"

\* a faulty counter that hands out the current value again
NextCommandIdStale(count) == IF count = 0 THEN 1 ELSE count

\* the id a command takes: the counter after its increment
NextCommandId(count) == count + 1

\* a faulty bridge that draws a new session for every command
CommandSessionPerCommand == session_id + command_count

\* the session a command carries
CommandSession == session_id

\* console injection: no file is written; legacy is what the window
\* search and the key injection come to on this platform
spawn_legacy(legacy) ==
    IF active_game # None /\ IsGmodName(active_game) THEN "False"
    ELSE IF active_game = None THEN "False"
    ELSE legacy

SourceWrite(op, c, result) ==
    LET outcome == result.outcome
        fs == WriteFile(files, command_file, c, outcome)
    IN  /\ command_count < MaxCommands
        /\ command_count' = c.id[1]
        /\ files' = fs
        /\ obs' = [Touched(obs, fs) EXCEPT
                     !.ret = Ret(op, result.value, "vscript", outcome),
                     !.lost =
                         LET held == FileText(command_file)
                         IN  IF /\ outcome = "ok"
                                /\ held # <<>>
                                /\ Len(held[1].id) = 1
                                /\ obs.cmd_polls = 0
                             THEN @ \cup {held[1].id[1]}
                             ELSE @,
                     !.sb_written =
                         IF outcome = "ok"
                         THEN Append(@, Written(op, c.id[1], c.session[1],
                                                command_file))
                         ELSE @]

SourceBridge_spawn(model_path, distance, outcome, legacy) ==
    /\ app.bridge
    /\ IF game_path = NoPath /\ active_game = None
       THEN /\ obs' = [obs EXCEPT !.ret = Ret("spawn", "False", "none", "none")]
            /\ UNCHANGED <<gmod_bridge, files, command_count>>
       ELSE IF model_path = ""
       THEN /\ obs' = [obs EXCEPT !.ret = Ret("spawn", "False", "none", "none")]
            /\ UNCHANGED <<gmod_bridge, files, command_count>>
       ELSE IF gmod_bridge.exists /\ is_connected(gmod_bridge)
       THEN /\ spawn_model("spawn", model_path, distance, outcome)
            /\ UNCHANGED command_count
       ELSE IF command_file # NoPath
               /\ (active_game = None \/ ~IsGmodName(active_game))
       THEN /\ SourceWrite("spawn",
                  Command("spawn_model", SafeModelPath(model_path),
                          Num(IF distance <= 0 THEN 200 ELSE distance),
                          Num(NextCommandId(command_count)),
                          Num(CommandSession)),
                  [outcome |-> outcome, value |-> SpawnWriteResult(outcome)])
            /\ UNCHANGED gmod_bridge
       ELSE /\ obs' = [obs EXCEPT
                         !.ret = Ret("spawn", spawn_legacy(legacy), "legacy",
                                     "none")]
            /\ UNCHANGED <<gmod_bridge, files, command_count>>
    /\ UNCHANGED <<game_path, vscripts_path, command_file, response_file,
                   running, watcher_thread, last_response_time, active_game,
                   session_id, mapbase_bridge, dirs, now, listener, threads,
                   app, env>>

spawn(model_path, distance, outcome, legacy) ==
    /\ SourceBridge_spawn(model_path, distance, outcome, legacy)
    /\ UNCHANGED elsewhere

\* spawn with an observer: call keeps the argument, what was returned,
\* whether each bridge object numbered a command and which file changed
NoCall ==
    [made |-> FALSE, model_path |-> "", value |-> "None", via |-> "none",
     gmod_numbered |-> FALSE, vscript_numbered |-> FALSE, changed |-> {}]

ObservedSpawn(model_path, distance, outcome, legacy) ==
    /\ SourceBridge_spawn(model_path, distance, outcome, legacy)
    /\ call' = [made |-> TRUE, model_path |-> model_path,
                value |-> obs'.ret.value, via |-> obs'.ret.via,
                gmod_numbered |-> gmod_bridge' # gmod_bridge,
                vscript_numbered |-> command_count' # command_count,
                changed |-> {f \in DOMAIN files' :
                                FileState(files', f) # FileState(files, f)}]
    /\ UNCHANGED <<resolve, vdf, spawner, scene, poll>>

SourceBridge_reinstall_awp_outputs(outcome) ==
    /\ app.bridge
    /\ IF game_path = NoPath \/ command_file = NoPath
       THEN /\ obs' = [obs EXCEPT !.ret = Ret("reinstall", "False", "none", "none")]
            /\ UNCHANGED <<files, command_count>>
       ELSE SourceWrite("reinstall",
                Command("reinstall_awp", "", NoField,
                        Num(NextCommandId(command_count)),
                        Num(CommandSession)),
                [outcome |-> outcome, value |-> ReinstallWriteResult(outcome)])
    /\ UNCHANGED <<game_path, vscripts_path, command_file, response_file,
                   running, watcher_thread, last_response_time, active_game,
                   session_id, gmod_bridge, mapbase_bridge, dirs, now,
                   listener, threads, app, env>>

reinstall_awp_outputs(outcome) ==
    /\ SourceBridge_reinstall_awp_outputs(outcome)
    /\ UNCHANGED elsewhere

(***************************************************************************)
(* The VScript listener (python_listener.nut, standard and Mapbase).       *)
(***************************************************************************)
FreshListener ==
    [loaded |-> FALSE, g_defined |-> FALSE, g_python_session_id |-> 0,
     g_python_last_command_id |-> 0, current_session_id |-> 0,
     last_command_id |-> 0, wide |-> TRUE]

\* the script interpreters a game may be built with
ListenerBuilds == {[FreshListener EXCEPT !.wide = w] : w \in BOOLEAN}

\* running the script: the g_ slots are created once per root table, the
\* working copies are taken from them, the think function is registered
RunListenerScript(L) ==
    LET g == IF L.g_defined THEN L
             ELSE [L EXCEPT !.g_defined = TRUE, !.g_python_session_id = 0,
                            !.g_python_last_command_id = 0]
    IN  [g EXCEPT !.loaded = TRUE,
                  !.last_command_id = g.g_python_last_command_id,
                  !.current_session_id = g.g_python_session_id]

\* what the game makes of a spawn / reinstall request
GameSituations ==
    {"ok", "no_player", "view_throws", "view_null", "trace_throws",
     "spawn_fails"}
AwpSituations == {"ok", "absent", "throws"}

Response(status, message) == [status |-> status, message |-> message]

\* model_path gets the "models/" prefix unless it starts with it
PrefixedModel(m) == IF m = "props/srcbox/srcbox.mdl"
                    THEN "models/props/srcbox/srcbox.mdl" ELSE m

\* a faulty spawn that answers before the trace and again when it throws
SpawnModelAtCrosshairTwice(model_path, game) ==
    CASE game = "no_player" -> <<Response("error", "no player")>>
      [] game = "view_throws" ->
             <<Response("error", "failed to get player view")>>
      [] game = "view_null" -> <<Response("error", "invalid player view")>>
      [] game = "trace_throws" ->
             <<Response("spawned", PrefixedModel(model_path)),
               Response("error", "execution failed")>>
      [] game = "spawn_fails" ->
             <<Response("error",
                        "spawn failed - invalid model or missing asset")>>
      [] OTHER -> <<Response("spawned", PrefixedModel(model_path))>>

SpawnModelAtCrosshair(model_path, game) ==
    CASE game = "no_player" -> <<Response("error", "no player")>>
      [] game = "view_throws" ->
             <<Response("error", "failed to get player view")>>
      [] game = "view_null" -> <<Response("error", "invalid player view")>>
      [] game = "trace_throws" -> <<Response("error", "execution failed")>>
      [] game = "spawn_fails" ->
             <<Response("error",
                        "spawn failed - invalid model or missing asset")>>
      [] OTHER -> <<Response("spawned", PrefixedModel(model_path))>>

\* a faulty id test that lets the last id through again
IdAcceptedRepeat(command_id, last) ==
    ~(command_id <= 0) /\ ~(command_id < last)

\* the commands the id test lets through
IdAccepted(command_id, last) == ~(command_id <= 0) /\ ~(command_id <= last)

\* ParseAndExecuteCommand on listener state L: the new state, whether the
\* command passed the session and id tests, and the responses sent
ParseAndExecuteCommand(L, json_str, game, awp) ==
    LET session == ExtractNumber(json_str, "session", L.wide)
        command_id == ExtractNumber(json_str, "id", L.wide)
        command == ExtractString(json_str, "command")
        model == ExtractString(json_str, "model")
        ignored == [listener |-> L, accepted |-> FALSE, responses |-> <<>>]
    IN  IF session = 0 THEN ignored
        ELSE IF L.current_session_id > 0 /\ session # L.current_session_id
        THEN ignored
        ELSE IF ~IdAccepted(command_id, L.last_command_id) THEN ignored
        ELSE [listener |-> [L EXCEPT !.last_command_id = command_id,
                                     !.g_python_last_command_id = command_id],
              accepted |-> TRUE,
              responses |->
                  IF command = "" THEN <<Response("error", "empty command")>>
                  ELSE IF command = "spawn_model"
                  THEN IF model = ""
                       THEN <<Response("error", "no model specified")>>
                       ELSE SpawnModelAtCrosshair(model, game)
                  ELSE IF command = "reinstall_awp"
                  THEN CASE awp = "absent" ->
                                <<Response("error", "awp function not found")>>
                         [] awp = "throws" ->
                                <<Response("error", "awp reinstall failed")>>
                         [] OTHER ->
                                <<Response("success", "awp outputs reinstalled")>>
                  ELSE <<Response("error", "unknown command")>>]

\* the session adoption at the head of CheckPythonCommand
AdoptSession(L, session) ==
    IF session > 0 /\ session # L.current_session_id
    THEN [L EXCEPT !.current_session_id = session,
                   !.g_python_session_id = session,
                   !.last_command_id = 0,
                   !.g_python_last_command_id = 0]
    ELSE L

\* SendResponse: StringToFile may throw, and the throw is swallowed
SendResponses(fs, responses, resp_ok) ==
    IF responses = <<>> \/ ~resp_ok THEN fs
    ELSE WriteFile(fs, ListenerResponseFile, responses[Len(responses)], "ok")

\* one run of the think function; read_ok is whether FileToString returned
Listener_CheckPythonCommand(read_ok, game, awp, resp_ok) ==
    LET command_str == IF read_ok THEN FileText(ListenerCommandFile) ELSE <<>>
    IN  /\ listener.loaded
        /\ IF command_str = <<>>
           THEN UNCHANGED <<listener, files, obs>>
           ELSE LET json_str == command_str[1]
                    L == AdoptSession(listener,
                                      ExtractNumber(json_str, "session",
                                                    listener.wide))
                    r == ParseAndExecuteCommand(L, json_str, game, awp)
                    written == IF Len(json_str["session"]) = 1
                               THEN json_str["session"][1] ELSE 0
                IN  /\ listener' = r.listener
                    /\ files' = SendResponses(files, r.responses, resp_ok)
                    /\ obs' = [obs EXCEPT
                                 !.cmd_polls = IF @ < 2 THEN @ + 1 ELSE @,
                                 !.cmd_execs = IF r.accepted /\ @ < 2
                                               THEN @ + 1 ELSE @,
                                 !.seen_session =
                                     IF written > 0 THEN written ELSE @]
        /\ UNCHANGED <<game_path, vscripts_path, command_file, response_file,
                       running, watcher_thread, last_response_time,
                       active_game, command_count, session_id, gmod_bridge,
                       mapbase_bridge, dirs, now, threads, app, env>>

CheckPythonCommand(read_ok, game, awp, resp_ok) ==
    /\ Listener_CheckPythonCommand(read_ok, game, awp, resp_ok)
    /\ UNCHANGED elsewhere

\* the think function with an observer of the game: poll keeps what the
\* run was given (the command, the game's situation, whether StringToFile
\* worked) and what it did (accepted, the calls of SendResponse)
NoPoll ==
    [polled |-> FALSE, command |-> "", model |-> "", game |-> "ok",
     awp |-> "ok", resp_ok |-> TRUE, accepted |-> FALSE, sent |-> <<>>]

ObservedPoll(read_ok, game, awp, resp_ok) ==
    /\ Listener_CheckPythonCommand(read_ok, game, awp, resp_ok)
    /\ LET command_str ==
               IF read_ok THEN FileText(ListenerCommandFile) ELSE <<>>
       IN  IF command_str = <<>> THEN UNCHANGED poll
           ELSE LET json_str == command_str[1]
                    L == AdoptSession(listener,
                                      ExtractNumber(json_str, "session",
                                                    listener.wide))
                    r == ParseAndExecuteCommand(L, json_str, game, awp)
                IN  poll' = [polled |-> TRUE,
                             command |-> ExtractString(json_str, "command"),
                             model |-> ExtractString(json_str, "model"),
                             game |-> game, awp |-> awp, resp_ok |-> resp_ok,
                             accepted |-> r.accepted, sent |-> r.responses]
    /\ UNCHANGED <<resolve, vdf, spawner, scene, call>>

LoadListener ==
    /\ listener' = RunListenerScript(listener)
    /\ listener' # listener
    /\ UNCHANGED <<elsewhere, game_path, vscripts_path, command_file, response_file,
                   running, watcher_thread, last_response_time, active_game,
                   command_count, session_id, gmod_bridge, mapbase_bridge,
                   files, dirs, now, threads, app, env, obs>>

(***************************************************************************)
(* start_listening, the watcher thread and stop.                           *)
(***************************************************************************)
ThreadIds == 1..MaxThreads
NoThread == [pc |-> "unborn", modified_time |-> 0, raised |-> FALSE]
Alive(t) == threads[t].pc \notin {"unborn", "dead"}
LiveThreads == {t \in ThreadIds : Alive(t)}

StartThread ==
    /\ app.bridge
    /\ IF game_path = NoPath
       THEN /\ obs' = [obs EXCEPT
                         !.ret = Ret("start_listening", "False", "none", "none")]
            /\ UNCHANGED <<running, watcher_thread, threads>>
       ELSE /\ \E t \in ThreadIds :
                 /\ threads[t].pc = "unborn"
                 /\ \A u \in ThreadIds : u < t => threads[u].pc # "unborn"
                 /\ running' = TRUE
                 /\ watcher_thread' = t
                 /\ threads' = [threads EXCEPT ![t].pc = "test"]
            /\ obs' = [obs EXCEPT
                         !.ret = Ret("start_listening", "True", "none", "none")]
    /\ UNCHANGED <<elsewhere, game_path, vscripts_path, command_file, response_file,
                   last_response_time, active_game, command_count, session_id,
                   gmod_bridge, mapbase_bridge, files, dirs, now, listener,
                   env>>

\* a call made by the running program
start_listening ==
    /\ app.pc = "running"
    /\ StartThread
    /\ UNCHANGED app

\* the call that ends the start-up code
startup_start_listening ==
    /\ app.pc = "start_listening"
    /\ StartThread
    /\ app' = [app EXCEPT !.pc = "running"]

\* a faulty loop that never tests the flag
LoopTestForever(is_running) == "stat"

\* the loop test of _watch_responses: where the thread goes next
LoopTest(is_running) == IF is_running THEN "stat" ELSE "dead"

\* where the thread goes when an iteration raised: the handler sleeps and
\* the loop is tested again
AfterException == "test"

StatOutcomes == {"ok", "gone", "oserror"}

\* one step of watcher thread t; stat is what os.path.getmtime comes to
\* when the response file exists.  The comparison with last_response_time
\* and the assignment that follows it are two steps of the thread, with
\* other threads running in between; at "handle" the thread assigns and
\* calls _handle_response, which changes nothing
_watch_responses(t, stat) ==
    /\ Alive(t)
    /\ LET th == threads[t]
           go(pc) == [threads EXCEPT ![t].pc = pc, ![t].modified_time = 0]
       IN  CASE th.pc = "test" ->
                  /\ threads' = go(LoopTest(running))
                  /\ UNCHANGED last_response_time
             [] th.pc = "stat" ->
                  /\ IF response_file # NoPath /\ response_file \in DOMAIN files
                     THEN CASE stat = "ok" ->
                                 threads' = [threads EXCEPT
                                    ![t].pc = "compare",
                                    ![t].modified_time =
                                        files[response_file].mtime]
                            [] stat = "gone" -> threads' = go("sleep")
                            [] OTHER -> threads' = [threads EXCEPT
                                    ![t].pc = "except", ![t].raised = TRUE]
                     ELSE threads' = go("sleep")
                  /\ UNCHANGED last_response_time
             [] th.pc = "compare" ->
                  /\ threads' =
                        IF th.modified_time > last_response_time
                        THEN [threads EXCEPT ![t].pc = "handle"]
                        ELSE go("sleep")
                  /\ UNCHANGED last_response_time
             [] th.pc = "handle" ->
                  /\ last_response_time' = th.modified_time
                  /\ threads' = go("sleep")
             [] th.pc = "sleep" ->
                  /\ threads' = go("test")
                  /\ UNCHANGED last_response_time
             [] th.pc = "except" ->
                  /\ threads' = go(AfterException)
                  /\ UNCHANGED last_response_time
    /\ UNCHANGED <<elsewhere, game_path, vscripts_path, command_file, response_file,
                   running, watcher_thread, active_game, command_count,
                   session_id, gmod_bridge, mapbase_bridge, files, dirs, now,
                   listener, app, env, obs>>

\* GModBridge.cleanup, then the removal of the bridge's own two files
StopFiles ==
    LET gm == IF gmod_bridge.exists
              THEN {gmod_bridge.command_file, gmod_bridge.response_file}
              ELSE {}
    IN  gm \cup {command_file, response_file}

\* rm_ok: whether os.remove succeeds (a failure is swallowed)
stop(rm_ok) ==
    /\ app.bridge
    /\ running' = FALSE
    /\ LET fs == IF rm_ok THEN [q \in DOMAIN files \ StopFiles |-> files[q]]
                 ELSE files
       IN  /\ files' = fs
           /\ obs' = [Touched(obs, fs) EXCEPT
                         !.ret = Ret("stop", "None", "none", "none")]
    /\ UNCHANGED <<elsewhere, game_path, vscripts_path, command_file, response_file,
                   watcher_thread, last_response_time, active_game,
                   command_count, session_id, gmod_bridge, mapbase_bridge,
                   dirs, now, listener, threads, app, env>>

(***************************************************************************)
(* The environment at run time: another writer of the listener's command   *)
(* file (an earlier run, a second instance, the user), the game answering, *)
(* the clock.                                                              *)
(***************************************************************************)
ForeignCommands ==
    {Command(cmd, "props/srcbox/srcbox.mdl", Num(200), id, s) :
        cmd \in {"spawn_model", ""},
        id \in {NoField, Num(0), Num(1), Num(2)},
        s \in {NoField, Num(0), Num(-1), Num(1), Num(MaxSession + 1)}}

ForeignWrite(c) ==
    /\ LET fs == WriteFile(files, ListenerCommandFile, c, "ok")
       IN  /\ fs # files
           /\ files' = fs
           /\ obs' = Touched(obs, fs)
    /\ UNCHANGED <<elsewhere, game_path, vscripts_path, command_file, response_file,
                   running, watcher_thread, last_response_time, active_game,
                   command_count, session_id, gmod_bridge, mapbase_bridge,
                   dirs, now, listener, threads, app, env>>

\* the game's script writes a response into the bridge's response file
GameResponds(r) ==
    /\ response_file # NoPath
    /\ files' = WriteFile(files, response_file, r, "ok")
    /\ files' # files
    /\ UNCHANGED <<elsewhere, game_path, vscripts_path, command_file, response_file,
                   running, watcher_thread, last_response_time, active_game,
                   command_count, session_id, gmod_bridge, mapbase_bridge,
                   dirs, now, listener, threads, app, env, obs>>

Tick ==
    /\ now < MaxTime
    /\ now' = now + 1
    /\ UNCHANGED <<elsewhere, game_path, vscripts_path, command_file, response_file,
                   running, watcher_thread, last_response_time, active_game,
                   command_count, session_id, gmod_bridge, mapbase_bridge,
                   files, dirs, listener, threads, app, env, obs>>

(***************************************************************************)
(* The bridge as its constructor leaves it, by kind of active game.        *)
(***************************************************************************)
BridgeFields(game, gp, vs, cf, rf, gb, mb) ==
    [active_game |-> game, game_path |-> gp, vscripts_path |-> vs,
     command_file |-> cf, response_file |-> rf, gmod_bridge |-> gb,
     mapbase_bridge |-> mb]

\* _setup_game_path
SupportedGameFields ==
    BridgeFields(TF2, TF2ScriptData, TF2VScripts,
                 Join(TF2ScriptData, "python_command.txt"),
                 Join(TF2ScriptData, "python_response.txt"),
                 NoGmodBridge, NoPath)

\* _setup_mapbase_mod
MapbaseFields(mod_name, mod_path) ==
    BridgeFields(mod_name, MapbaseScriptData(mod_path),
                 MapbaseVScripts(mod_path),
                 Join(MapbaseScriptData(mod_path), "python_command.txt"),
                 Join(MapbaseScriptData(mod_path), "python_response.txt"),
                 NoGmodBridge, mod_path)

\* _setup_sourcemod_from_path
SourcemodFields(mod_name, mod_path) ==
    BridgeFields(mod_name, Join(mod_path, "scriptdata"), NoPath, NoPath,
                 NoPath, NoGmodBridge, NoPath)

\* GModBridge._setup_paths
GmodBridgeAt(data_path, session) ==
    [exists |-> TRUE, data_path |-> data_path,
     command_file |-> Join(data_path, "sourcebox_command.txt"),
     response_file |-> Join(data_path, "sourcebox_response.txt"),
     session_id |-> session, command_id |-> 0]

\* GModBridge.__init__ when _detect_gmod sets nothing up
GmodBridgeUnset(session) ==
    [NoGmodBridge EXCEPT !.exists = TRUE, !.session_id = session]

\* _setup_gmod_path
GmodFields(game_name, gb) ==
    LET data_path == Join(GmodModPath(game_name), "data")
    IN  BridgeFields(game_name, data_path, NoPath,
                     Join(data_path, "sourcebox_command.txt"),
                     Join(data_path, "sourcebox_response.txt"), gb, NoPath)

\* __init__ when nothing is detected
NoGameFields ==
    BridgeFields(None, NoPath, NoPath, NoPath, NoPath, NoGmodBridge, NoPath)

Sessions == 1..MaxSession

\* GModBridge takes int(time.time()), SourceBridge int(time.time() * 1000)
\* plus a random amount: the two numbers of one run are never equal
GmodSession == MaxSession + 1

RuntimeBridges ==
    {SupportedGameFields, MapbaseFields("Mapbase: mbmod", MapbaseModPath),
     SourcemodFields(PlainMod, PlainModPath), NoGameFields,
     GmodFields("Garry's Mod 13", NoGmodBridge),
     GmodFields("Garry's Mod 13",
                GmodBridgeAt(Join(GmodModPath("Garry's Mod 13"), "data"),
                             GmodSession)),
     GmodFields("Garry's Mod 13", GmodBridgeUnset(GmodSession))}

(***************************************************************************)
(* Start-up.  Strings that the detection searches are sequences of         *)
(* characters, so that "in" is a real substring test.                      *)
(***************************************************************************)
\* str.lower() on the characters the modelled arguments use
Lower(str) ==
    [i \in DOMAIN str |->
        CASE str[i] = "G" -> "g" [] str[i] = "M" -> "m" [] OTHER -> str[i]]

\* sub in str
Contains(sub, str) ==
    \E i \in 1..(Len(str) - Len(sub) + 1) :
        SubSeq(str, i, i + Len(sub) - 1) = sub

K_gmod9 == <<"g", "m", "o", "d", "9">>
K_garrysmod9 == <<"g", "a", "r", "r", "y", "s", "m", "o", "d", "9">>
K_garrysmod10classic == <<"g", "a", "r", "r", "y", "s", "m", "o", "d", "1", "0", "c", "l", "a", "s", "s", "i", "c">>
K_garrysmod12 == <<"g", "a", "r", "r", "y", "s", "m", "o", "d", "1", "2">>
K_garrysmod10 == <<"g", "a", "r", "r", "y", "s", "m", "o", "d", "1", "0">>
K_garrysmod == <<"g", "a", "r", "r", "y", "s", "m", "o", "d">>
K_sourcemods == <<"s", "o", "u", "r", "c", "e", "m", "o", "d", "s">>

\* values of the -game argument
GameArgs ==
    {<<"g", "m", "o", "d", "9">>, <<"g", "a", "r", "r", "y", "s", "m", "o", "d", "9">>, <<"g", "a", "r", "r", "y", "s", "m", "o", "d", "1", "0", "c", "l", "a", "s", "s", "i", "c">>, <<"g", "a", "r", "r", "y", "s", "m", "o", "d", "1", "2">>,
     <<"g", "a", "r", "r", "y", "s", "m", "o", "d">>, <<"G", "a", "r", "r", "y", "s", "M", "o", "d">>, <<"g", "a", "r", "r", "y", "s", "m", "o", "d", "1", "0">>, <<"s", "o", "u", "r", "c", "e", "m", "o", "d", "s", "/", "g", "a", "r", "r", "y", "s", "m", "o", "d">>,
     <<"g", "m", "o", "d", "9", "/", "g", "a", "r", "r", "y", "s", "m", "o", "d", "1", "2">>, <<"g", "a", "r", "r", "y", "s", "m", "o", "d", "1", "2", "/", "g", "a", "r", "r", "y", "s", "m", "o", "d", "1", "0", "c", "l", "a", "s", "s", "i", "c">>, <<"h", "l", "2">>}

\* the -game arguments of one command line, in order
GameArgLists ==
    {<<a>> : a \in GameArgs}
    \cup {<<<<"g", "a", "r", "r", "y", "s", "m", "o", "d", "1", "0">>, <<"g", "m", "o", "d", "9">>>>, <<<<"h", "l", "2">>, <<"g", "a", "r", "r", "y", "s", "m", "o", "d">>>>}

\* where the executable of the process lies
ExePaths == {<<"c", "/", "g", "a", "r", "r", "y", "s", "m", "o", "d", "/", "h", "l", "2">>, <<"s", "o", "u", "r", "c", "e", "m", "o", "d", "s", "/", "x", "/", "h", "l", "2">>, <<"c", "/", "s", "d", "k", "/", "h", "l", "2">>}

\* the rest of the mod directories of the library
TF2Root == <<"common", TF2>>
GmodSourcemods ==
    <<"gmod9", "garrysmod10classic", "garrysmod", "garrysmod12">>
GmodRetailPath == <<"common", "GarrysMod", "garrysmod">>

\* the Garry's Mod installs a library holds
GmodInstalls ==
    {{}, {GmodModPath("Garry's Mod 9")}, {GmodModPath("Garry's Mod 10")},
     {GmodModPath("Garry's Mod 11")}, {GmodModPath("Garry's Mod 12")},
     {GmodModPath("Garry's Mod 13")},
     {GmodModPath("Garry's Mod 11"), GmodModPath("Garry's Mod 13")},
     {GmodModPath("Garry's Mod 9"), GmodModPath("Garry's Mod 13")},
     {GmodModPath(n) : n \in GmodNames}}

\* no game process
NoProc ==
    [name |-> None, game_args |-> <<>>, exe |-> <<>>,
     cmd_sourcemods |-> FALSE]

\* hl2.exe started with -game arguments
GmodProcs ==
    [name : {"hl2.exe"}, game_args : GameArgLists, exe : ExePaths,
     cmd_sourcemods : BOOLEAN]

\* the machine the bridge is constructed on: the game process, what is
\* installed, whether an earlier run left its files behind, and a mod
\* directory in which no data directory can be created
Environments ==
    [kind : {"gmod"}, proc : GmodProcs, installed : GmodInstalls,
     stale : BOOLEAN, locked : {NoPath, GmodModPath("Garry's Mod 9")}]
    \cup [kind : {"tf2", "tf2_installed", "mapbase", "sourcemod", "none"},
          proc : {NoProc}, installed : {{}}, stale : BOOLEAN,
          locked : {NoPath}]

NoEnv ==
    [kind |-> "none", proc |-> NoProc, installed |-> {}, stale |-> FALSE,
     locked |-> NoPath]

\* the directories of environment e before the bridge is constructed
EnvDirs(e) ==
    LET data == {Join(d, "data") : d \in e.installed}
    IN  CASE e.kind = "gmod" ->
                 e.installed \cup (IF e.stale THEN data ELSE {})
          [] e.kind \in {"tf2", "tf2_installed"} ->
                 {TF2Root} \cup (IF e.stale THEN {TF2ScriptData} ELSE {})
          [] e.kind = "mapbase" ->
                 {MapbaseModPath}
                 \cup (IF e.stale THEN {MapbaseScriptData(MapbaseModPath)}
                       ELSE {})
          [] e.kind = "sourcemod" -> {PlainModPath}
          [] OTHER -> {}

\* a command left in a command file by an earlier run
StaleCommand ==
    Command("spawn_model", "props/srcbox/srcbox.mdl", Num(200), Num(1),
            Num(MaxSession + 1))
StaleResponse == [status |-> "spawned", message |-> "stale"]

\* the command and response files left behind by an earlier run
EnvFiles(e) ==
    LET in(d, c, r) ==
            (Join(d, c) :> [text |-> <<StaleCommand>>, mtime |-> 0])
            @@ (Join(d, r) :> [text |-> <<StaleResponse>>, mtime |-> 0])
        gm == [p \in UNION {{Join(Join(d, "data"), "sourcebox_command.txt"),
                             Join(Join(d, "data"), "sourcebox_response.txt")} :
                            d \in e.installed} |->
                  [text |-> <<StaleCommand>>, mtime |-> 0]]
    IN  IF ~e.stale THEN <<>>
        ELSE CASE e.kind = "gmod" -> gm
               [] e.kind \in {"tf2", "tf2_installed"} ->
                      in(TF2ScriptData, "python_command.txt",
                         "python_response.txt")
               [] e.kind = "mapbase" ->
                      in(MapbaseScriptData(MapbaseModPath),
                         "python_command.txt", "python_response.txt")
               [] OTHER -> <<>>

(***************************************************************************)
(* GModBridge.__init__: its own detection of the running Garry's Mod and   *)
(* of the install to use.  The Lua addon it writes is left out.            *)
(***************************************************************************)
RECURSIVE RunningGmodFrom(_, _)
RunningGmodFrom(proc, i) ==
    LET exe_lower == Lower(proc.exe)
    IN  IF i > Len(proc.game_args)
        THEN IF Contains(K_garrysmod, exe_lower)
                /\ ~Contains(K_sourcemods, exe_lower)
             THEN "gmod13" ELSE None
        ELSE LET game_arg == Lower(proc.game_args[i])
             IN  IF Contains(K_gmod9, game_arg)
                    \/ Contains(K_garrysmod9, game_arg)
                 THEN "gmod9"
                 ELSE IF Contains(K_garrysmod12, game_arg)
                 THEN "garrysmod12"
                 ELSE IF Contains(K_garrysmod10classic, game_arg)
                 THEN "garrysmod10classic"
                 ELSE IF Contains(K_garrysmod, game_arg)
                 THEN IF Contains(K_sourcemods, game_arg)
                         \/ Contains(K_sourcemods, exe_lower)
                      THEN "garrysmod" ELSE "gmod13"
                 ELSE RunningGmodFrom(proc, i + 1)

_detect_running_gmod(proc) ==
    IF proc.name = "hl2.exe" THEN RunningGmodFrom(proc, 1) ELSE None

\* _setup_paths: the bridge's fields, and its two files removed
GmodSetupPaths(data_path, fs, ds) ==
    [raised |-> FALSE, bridge |-> GmodBridgeAt(data_path, GmodSession),
     files |-> RemoveFile(RemoveFile(fs,
                   Join(data_path, "sourcebox_command.txt")),
                   Join(data_path, "sourcebox_response.txt")),
     dirs |-> ds]

\* the retail part of _detect_gmod
ScanGmodRetail(running_gmod, fs, ds) ==
    LET data_path == Join(GmodRetailPath, "data")
    IN  IF GmodRetailPath \notin ds
        THEN [raised |-> FALSE, bridge |-> GmodBridgeUnset(GmodSession),
              files |-> fs, dirs |-> ds]
        ELSE IF running_gmod \in {"gmod13", "garrysmod"}
        THEN GmodSetupPaths(data_path, fs, ds \cup {data_path})
        ELSE [raised |-> FALSE, bridge |-> GmodBridgeUnset(GmodSession),
              files |-> fs, dirs |-> ds \cup {data_path}]

\* the sourcemod part of _detect_gmod, from the i-th folder of
\* GMOD_SOURCEMODS on; os.makedirs raises in the locked mod directory
RECURSIVE ScanGmodSourcemods(_, _, _, _, _)
ScanGmodSourcemods(i, running_gmod, fs, ds, locked) ==
    IF i > Len(GmodSourcemods) THEN ScanGmodRetail(running_gmod, fs, ds)
    ELSE LET mod_folder == GmodSourcemods[i]
             mod_path == <<"sourcemods", mod_folder>>
             data_path == Join(mod_path, "data")
         IN  IF mod_path \notin ds
             THEN ScanGmodSourcemods(i + 1, running_gmod, fs, ds, locked)
             ELSE IF data_path \notin ds /\ mod_path = locked
             THEN [raised |-> TRUE, bridge |-> NoGmodBridge, files |-> fs,
                   dirs |-> ds]
             ELSE IF running_gmod = mod_folder
             THEN GmodSetupPaths(data_path, fs, ds \cup {data_path})
             ELSE ScanGmodSourcemods(i + 1, running_gmod, fs,
                                     ds \cup {data_path}, locked)

_detect_gmod(proc, fs, ds, locked) ==
    ScanGmodSourcemods(1, _detect_running_gmod(proc), fs, ds, locked)

(***************************************************************************)
(* SourceBridge.__init__.  The operators work on a record of the bridge's  *)
(* fields, the file system, the _setup_gmod_path calls made so far and the *)
(* result of the last setup call.                                          *)
(***************************************************************************)
FreshBridge(fs, ds) ==
    [active_game |-> None, game_path |-> NoPath, vscripts_path |-> NoPath,
     command_file |-> NoPath, response_file |-> NoPath,
     gmod_bridge |-> NoGmodBridge, mapbase_bridge |-> NoPath,
     files |-> fs, dirs |-> ds, attempts |-> <<>>, ok |-> FALSE]

SetFields(B, f) ==
    [B EXCEPT !.active_game = f.active_game, !.game_path = f.game_path,
              !.vscripts_path = f.vscripts_path,
              !.command_file = f.command_file,
              !.response_file = f.response_file]

\* the python_command.txt / python_response.txt of every installed
\* supported game that is not a Garry's Mod are removed
_cleanup_old_files(fs, ds) ==
    IF TF2Root \in ds /\ TF2ScriptData \in ds
    THEN RemoveFile(RemoveFile(fs, Join(TF2ScriptData, "python_command.txt")),
                    Join(TF2ScriptData, "python_response.txt"))
    ELSE fs

AttemptLog(B, game_name, ok) ==
    Append(B.attempts, [game |-> game_name, ok |-> ok])

\* the rest of _setup_gmod_path once the mod directory is found and its
\* data directory made: the fields are set, then g is what GModBridge()
\* came to
WithGmodBridge(B, game_name, g) ==
    IF g.raised
    THEN [SetFields(B, GmodFields(game_name, NoGmodBridge)) EXCEPT
            !.dirs = g.dirs, !.ok = FALSE,
            !.attempts = AttemptLog(B, game_name, FALSE)]
    ELSE [SetFields(B, GmodFields(game_name, NoGmodBridge)) EXCEPT
            !.gmod_bridge = g.bridge, !.files = g.files, !.dirs = g.dirs,
            !.ok = TRUE, !.attempts = AttemptLog(B, game_name, TRUE)]

_setup_gmod_path(B, game_name, e) ==
    IF \/ GmodModPath(game_name) \notin B.dirs
       \/ /\ Join(GmodModPath(game_name), "data") \notin B.dirs
          /\ GmodModPath(game_name) = e.locked
    THEN [B EXCEPT !.ok = FALSE,
                   !.attempts = AttemptLog(B, game_name, FALSE)]
    ELSE WithGmodBridge(B, game_name,
             _detect_gmod(e.proc, B.files,
                          B.dirs \cup {Join(GmodModPath(game_name), "data")},
                          e.locked))

_setup_game_path(B, game_name, e) ==
    IF IsGmodName(game_name) THEN _setup_gmod_path(B, game_name, e)
    ELSE IF TF2Root \notin B.dirs THEN [B EXCEPT !.ok = FALSE]
    ELSE [SetFields(B, SupportedGameFields) EXCEPT
            !.dirs = @ \cup {TF2ScriptData, TF2VScripts}, !.ok = TRUE]

\* the script files MapbaseBridge.install_scripts writes
MapbaseScripts ==
    {"auto_spawner.nut", "picker.nut", "python_listener.nut",
     "vscript_server.nut"}
Script(name, by) == [script |-> name, by |-> by]

_setup_mapbase_mod(B, mod_name, mod_path) ==
    LET vs == MapbaseVScripts(mod_path)
        scripts == [q \in {Join(vs, n) : n \in MapbaseScripts} |->
                      [text |-> <<Script(q[Len(q)], "MapbaseBridge")>>,
                       mtime |-> now]]
    IN  [SetFields(B, MapbaseFields("Mapbase: " \o mod_name, mod_path))
           EXCEPT !.mapbase_bridge = mod_path,
                  !.dirs = @ \cup {MapbaseScriptData(mod_path), vs},
                  !.files = scripts @@ @, !.ok = TRUE]

_setup_sourcemod_from_path(B, mod_name, mod_path) ==
    [B EXCEPT !.active_game = mod_name,
              !.game_path = Join(mod_path, "scriptdata"),
              !.vscripts_path = NoPath, !.command_file = NoPath,
              !.dirs = @ \cup {Join(mod_path, "scriptdata"),
                               Join(mod_path, "cfg")},
              !.ok = TRUE]

\* a variant of the classification that leaves the two exclusions out
GmodVariantLoose(game_arg) ==
    IF Contains(K_gmod9, game_arg) \/ Contains(K_garrysmod9, game_arg)
    THEN "Garry's Mod 9"
    ELSE IF Contains(K_garrysmod12, game_arg) THEN "Garry's Mod 12"
    ELSE IF Contains(K_garrysmod, game_arg) THEN "garrysmod"
    ELSE None

\* the branch of the Garry's Mod block that the lowered -game argument
\* takes; "garrysmod" is the branch that tells 11 from 13
GmodVariant(game_arg) ==
    IF Contains(K_gmod9, game_arg) \/ Contains(K_garrysmod9, game_arg)
    THEN "Garry's Mod 9"
    ELSE IF Contains(K_garrysmod10classic, game_arg) THEN "Garry's Mod 10"
    ELSE IF Contains(K_garrysmod12, game_arg) THEN "Garry's Mod 12"
    ELSE IF Contains(K_garrysmod, game_arg)
            /\ ~Contains(K_garrysmod10, game_arg)
            /\ ~Contains(K_garrysmod12, game_arg)
    THEN "garrysmod"
    ELSE None

\* 'sourcemods' in the executable's path or in any part of the command line
IsSourcemodProcess(proc) ==
    \/ Contains(K_sourcemods, Lower(proc.exe))
    \/ proc.cmd_sourcemods
    \/ \E i \in DOMAIN proc.game_args :
          Contains(K_sourcemods, Lower(proc.game_args[i]))

\* what a branch leaves: the bridge, running_game, and whether
\* _detect_running_game returned
Tried(r, name) == [b |-> r, running_game |-> name, returned |-> r.ok]

\* the name a branch tries first
FirstName(v, proc) ==
    IF v # "garrysmod" THEN v
    ELSE IF IsSourcemodProcess(proc) THEN "Garry's Mod 11"
    ELSE "Garry's Mod 13"

\* after the first try r: only the retail try falls back, to GMod 11
AfterFirstTry(r, name, e) ==
    IF r.ok \/ name # "Garry's Mod 13" THEN Tried(r, name)
    ELSE Tried(_setup_gmod_path(r, "Garry's Mod 11", e), "Garry's Mod 11")

GmodBranch(B, e, v) ==
    AfterFirstTry(_setup_gmod_path(B, FirstName(v, e.proc), e),
                  FirstName(v, e.proc), e)

\* the Garry's Mod block of _detect_running_game from the i-th -game
\* argument on; an argument that takes no branch is passed over
RECURSIVE DetectGmodFrom(_, _, _)
GmodArg(B, e, i, v) ==
    IF v = None THEN DetectGmodFrom(B, e, i + 1) ELSE GmodBranch(B, e, v)

DetectGmodFrom(B, e, i) ==
    IF i > Len(e.proc.game_args)
    THEN [b |-> B, running_game |-> None, returned |-> FALSE]
    ELSE GmodArg(B, e, i, GmodVariant(Lower(e.proc.game_args[i])))

\* the sourcemod folders _scan_sourcemods lists
ScannedSourcemods(ds) ==
    {d \in ds : Len(d) = 2 /\ d[1] = "sourcemods"}

\* the folder os.listdir may put first
FirstListed(e) ==
    IF ScannedSourcemods(EnvDirs(e)) = {} THEN {NoPath}
    ELSE ScannedSourcemods(EnvDirs(e))

\* _scan_installed_games: the first installed supported game becomes active
ScanInstalledGames(B) ==
    IF TF2Root \in B.dirs
    THEN [SetFields(B, SupportedGameFields) EXCEPT
            !.dirs = @ \cup {TF2ScriptData, TF2VScripts}]
    ELSE B

\* _scan_sourcemods with pick listed first
_scan_sourcemods(B, pick) ==
    IF B.active_game = None /\ ScannedSourcemods(B.dirs) # {}
    THEN [B EXCEPT !.active_game = pick[2],
                   !.game_path = Join(pick, "scriptdata"),
                   !.vscripts_path = NoPath, !.command_file = NoPath,
                   !.dirs = @ \cup {Join(d, "scriptdata") :
                                      d \in ScannedSourcemods(B.dirs)}]
    ELSE [B EXCEPT !.dirs = @ \cup {Join(d, "scriptdata") :
                                      d \in ScannedSourcemods(B.dirs)}]

ScanInstalled(B, pick) == _scan_sourcemods(ScanInstalledGames(B), pick)

\* the end of _detect_running_game for a running supported game: r is what
\* _setup_game_path came to
AfterSetup(r, pick) == IF r.ok THEN r ELSE ScanInstalled(r, pick)

\* the end of _detect_running_game after the Garry's Mod block left d
AfterGmodBlock(d, e, pick) ==
    IF d.returned THEN d.b
    ELSE IF d.running_game = None THEN ScanInstalled(d.b, pick)
    ELSE AfterSetup(_setup_game_path(d.b, d.running_game, e), pick)

_detect_running_game(B, e, pick) ==
    CASE e.kind = "gmod" -> AfterGmodBlock(DetectGmodFrom(B, e, 1), e, pick)
      [] e.kind = "tf2" -> AfterSetup(_setup_game_path(B, TF2, e), pick)
      [] e.kind = "mapbase" ->
             _setup_mapbase_mod(B, MapbaseMod, MapbaseModPath)
      [] e.kind = "sourcemod" ->
             _setup_sourcemod_from_path(B, PlainMod, PlainModPath)
      [] OTHER -> ScanInstalled(B, pick)

(***************************************************************************)
(* The start-up code of the two entry points.  app.pc names the statement  *)
(* to run next.                                                            *)
(***************************************************************************)
Entries == {"Sourcebox.main", "source_bridge.__main__"}

\* the first statement after SourceBridge() for a bridge with fields B
AfterConstruction(entry, B) ==
    IF B.active_game = None \/ B.vscripts_path = NoPath THEN "running"
    ELSE IF entry = "source_bridge.__main__" /\ B.mapbase_bridge # NoPath
    THEN "start_listening"
    ELSE "install_listener"

\* the fields and the file system as the constructor leaves them
Constructed(B) ==
    /\ active_game' = B.active_game
    /\ game_path' = B.game_path
    /\ vscripts_path' = B.vscripts_path
    /\ command_file' = B.command_file
    /\ response_file' = B.response_file
    /\ gmod_bridge' = B.gmod_bridge
    /\ mapbase_bridge' = B.mapbase_bridge
    /\ files' = B.files
    /\ dirs' = B.dirs
    /\ obs' = [obs EXCEPT !.attempts = B.attempts]
    /\ app' = [app EXCEPT !.pc = AfterConstruction(app.entry, B)]

SourceBridge_init(session, pick) ==
    /\ app.pc = "start"
    /\ Constructed(_detect_running_game(
                       FreshBridge(_cleanup_old_files(files, dirs), dirs),
                       env, pick))
    /\ session_id' = session
    /\ UNCHANGED <<elsewhere, running, watcher_thread, last_response_time,
                   command_count, now, listener, threads, env>>

\* an installer of SourceBridge writing its script into vscripts_path
InstallScript(pc, name, next, outcome) ==
    /\ app.pc = pc
    /\ files' = WriteFile(files, Join(vscripts_path, name),
                          Script(name, "SourceBridge"), outcome)
    /\ app' = [app EXCEPT !.pc = next]
    /\ UNCHANGED <<elsewhere, game_path, vscripts_path, command_file, response_file,
                   running, watcher_thread, last_response_time, active_game,
                   command_count, session_id, gmod_bridge, mapbase_bridge,
                   dirs, now, listener, threads, env, obs>>

install_listener(outcome) ==
    InstallScript("install_listener", "python_listener.nut",
                  "install_picker", outcome)
install_picker(outcome) ==
    InstallScript("install_picker", "picker.nut", "install_awp_quit", outcome)
install_awp_quit(outcome) ==
    InstallScript("install_awp_quit", "awp_quit_trigger.nut",
                  "install_auto_spawner", outcome)
install_auto_spawner(outcome) ==
    InstallScript("install_auto_spawner", "auto_spawner.nut",
                  "setup_mapspawn", outcome)
setup_mapspawn(outcome) ==
    InstallScript("setup_mapspawn", "mapspawn.nut",
                  IF app.entry = "Sourcebox.main" THEN "setup_autoexec"
                  ELSE "start_listening", outcome)

\* Sourcebox.main calls bridge.setup_autoexec(); SourceBridge has no such
\* method, the AttributeError is caught by the except clause around the
\* start-up code, which sets bridge to None
setup_autoexec ==
    /\ app.pc = "setup_autoexec"
    /\ app' = [app EXCEPT !.pc = "running", !.bridge = FALSE]
    /\ UNCHANGED <<elsewhere, game_path, vscripts_path, command_file, response_file,
                   running, watcher_thread, last_response_time, active_game,
                   command_count, session_id, gmod_bridge, mapbase_bridge,
                   files, dirs, now, listener, threads, env, obs>>

(***************************************************************************)
(* _resolve_game_path.  Here a path is the sequence of its components, an  *)
(* absolute path starting with the component "/".                          *)
(***************************************************************************)
IsAbs(p) == p # <<>> /\ p[1] = "/"

\* os.path.join(a, b)
PathJoin(a, b) == IF IsAbs(b) THEN b ELSE a \o b

\* os.path.normpath: "." is dropped, ".." takes the component before it
\* away (the root stays), the empty path becomes "."
RECURSIVE NormFrom(_, _, _)
NormFrom(p, i, acc) ==
    IF i > Len(p) THEN (IF acc = <<>> THEN <<".">> ELSE acc)
    ELSE IF p[i] = "." THEN NormFrom(p, i + 1, acc)
    ELSE IF p[i] = ".." /\ acc # <<>> /\ acc[Len(acc)] = "/"
    THEN NormFrom(p, i + 1, acc)
    ELSE IF p[i] = ".." /\ acc # <<>> /\ acc[Len(acc)] # ".."
    THEN NormFrom(p, i + 1, SubSeq(acc, 1, Len(acc) - 1))
    ELSE NormFrom(p, i + 1, Append(acc, p[i]))
normpath(p) == NormFrom(p, 1, <<>>)

\* os.path.dirname
dirname(p) ==
    IF p = <<>> THEN <<>>
    ELSE IF Len(p) = 1 THEN (IF IsAbs(p) THEN p ELSE <<>>)
    ELSE SubSeq(p, 1, Len(p) - 1)

\* os.path.expanduser
HomeDir == <<"/", "home">>
expanduser(p) ==
    IF p # <<>> /\ p[1] = "~" THEN HomeDir \o SubSeq(p, 2, Len(p)) ELSE p

\* what is left of a component cut after the first 'steamapps' in its
\* lowered text; None when the text does not hold it
SteamappsCut(component) ==
    CASE component \in {"steamapps", "SteamApps"} -> component
      [] component = "steamapps2" -> "steamapps"
      [] OTHER -> None

\* exe_dir[:steamapps_index + len('steamapps')], NoPath when find gives -1
RECURSIVE SteamappsRootFrom(_, _)
SteamappsRootFrom(exe_dir, i) ==
    IF i > Len(exe_dir) THEN NoPath
    ELSE IF SteamappsCut(exe_dir[i]) # None
    THEN Append(SubSeq(exe_dir, 1, i - 1), SteamappsCut(exe_dir[i]))
    ELSE SteamappsRootFrom(exe_dir, i + 1)
steamapps_root(exe_dir) == SteamappsRootFrom(exe_dir, 1)

\* game_arg.strip('"') with the user directory expanded
cleaned(game_arg) == expanduser(game_arg.path)

\* a faulty list that tries the library's common directory first
CandidatesCommonFirst(c, exe_dir) ==
    (IF IsAbs(c) THEN <<normpath(c)>> ELSE <<>>)
    \o (IF exe_dir = <<>> THEN <<>>
        ELSE (IF steamapps_root(exe_dir) = NoPath THEN <<>>
              ELSE <<normpath(PathJoin(Append(steamapps_root(exe_dir),
                                              "common"), c))>>)
             \o <<normpath(PathJoin(exe_dir, c))>>)

\* the list candidates for the cleaned argument c
Candidates(c, exe_dir) ==
    (IF IsAbs(c) THEN <<normpath(c)>> ELSE <<>>)
    \o (IF exe_dir = <<>> THEN <<>>
        ELSE <<normpath(PathJoin(exe_dir, c))>>
             \o (IF dirname(exe_dir) # <<>> /\ dirname(exe_dir) # exe_dir
                 THEN <<normpath(PathJoin(dirname(exe_dir), c))>> ELSE <<>>)
             \o (IF steamapps_root(exe_dir) = NoPath THEN <<>>
                 ELSE <<normpath(PathJoin(Append(steamapps_root(exe_dir),
                                                 "sourcemods"), c)),
                        normpath(PathJoin(Append(steamapps_root(exe_dir),
                                                 "common"), c))>>))

\* the deduplication that keeps the first of equal candidates
RECURSIVE UniqueFrom(_, _, _)
UniqueFrom(candidates, i, acc) ==
    IF i > Len(candidates) THEN acc
    ELSE IF \E j \in DOMAIN acc : acc[j] = candidates[i]
    THEN UniqueFrom(candidates, i + 1, acc)
    ELSE UniqueFrom(candidates, i + 1, Append(acc, candidates[i]))
unique_candidates(candidates) == UniqueFrom(candidates, 1, <<>>)

\* the loop that tests the candidates with os.path.isdir
RECURSIVE FirstDirFrom(_, _, _)
FirstDirFrom(cands, i, isdir) ==
    IF i > Len(cands) THEN NoPath
    ELSE IF cands[i] \in isdir THEN cands[i]
    ELSE FirstDirFrom(cands, i + 1, isdir)

ResolveGamePath(game_arg, exe_path, isdir) ==
    IF ~game_arg.quoted /\ game_arg.path = <<>> THEN NoPath
    ELSE FirstDirFrom(
             unique_candidates(Candidates(cleaned(game_arg),
                                          dirname(exe_path))),
             1, isdir)

\* the -game arguments, the executables and the directories of a call
ResolveArgs ==
    [quoted : BOOLEAN,
     path : {<<>>, <<"mod">>, <<"/", "games", "mod">>, <<"..", "mod">>,
             <<"~", "mod">>}]
ResolveExes ==
    {NoPath,
     <<"/", "lib", "steamapps", "common", "sdk", "hl2.exe">>,
     <<"/", "lib", "SteamApps", "sourcemods", "hl2.exe">>,
     <<"/", "lib", "steamapps2", "sdk", "hl2.exe">>,
     <<"/", "opt", "game", "hl2.exe">>,
     <<"/", "hl2.exe">>}
ResolveDirs ==
    {<<"/", "games", "mod">>, <<"/", "home", "mod">>, <<"/", "mod">>,
     <<"/", "opt", "mod">>, <<"/", "opt", "game", "mod">>,
     <<"/", "lib", "steamapps", "common", "sdk">>,
     <<"/", "lib", "steamapps", "common", "sdk", "mod">>,
     <<"/", "lib", "steamapps", "common", "mod">>,
     <<"/", "lib", "steamapps", "sourcemods", "mod">>,
     <<"/", "lib", "SteamApps", "common", "mod">>}

NoResolve ==
    [game_arg |-> [quoted |-> FALSE, path |-> <<>>], exe_path |-> NoPath,
     isdir |-> {}, done |-> FALSE, result |-> NoPath]

_resolve_game_path ==
    /\ ~resolve.done
    /\ resolve' = [resolve EXCEPT
                     !.done = TRUE,
                     !.result = ResolveGamePath(resolve.game_arg,
                                                resolve.exe_path,
                                                resolve.isdir)]
    /\ UNCHANGED <<game_path, vscripts_path, command_file, response_file,
                   running, watcher_thread, last_response_time, active_game,
                   command_count, session_id, gmod_bridge, mapbase_bridge,
                   files, dirs, now, listener, threads, app, env, obs, vdf,
                   spawner, scene, poll, call>>

(***************************************************************************)
(* _parse_library_folders_vdf (the same code in SourceBridge and in        *)
(* GModBridge).  The file's text is the sequence of its quoted strings,    *)
(* separated by white space.                                               *)
(***************************************************************************)
MaxTokens == 4

SteamPath == "/steam"

\* the quoted strings a libraryfolders.vdf is made of here
VdfTokens == {"path", "", "/steam", "/lib1", "/lib2", "D:\\\\Lib"}

\* match.replace('\\\\', '\\')
Unescape(match) == IF match = "D:\\\\Lib" THEN "D:\\Lib" ELSE match

\* re.findall(r'"path"\s+"([^"]+)"', content): a string "path" followed by
\* a non-empty string; the search goes on behind the match
RECURSIVE MatchesFrom(_, _)
MatchesFrom(tokens, i) ==
    IF i >= Len(tokens) THEN <<>>
    ELSE IF tokens[i] = "path" /\ tokens[i + 1] # ""
    THEN <<tokens[i + 1]>> \o MatchesFrom(tokens, i + 2)
    ELSE MatchesFrom(tokens, i + 1)

\* a faulty test that does not look at what the list holds already
LibraryAcceptedAgain(library_path, libraries, exists) ==
    library_path \in exists

\* os.path.exists(library_path) and library_path not in libraries
LibraryAccepted(library_path, libraries, exists) ==
    /\ library_path \in exists
    /\ \A k \in DOMAIN libraries : libraries[k] # library_path

\* the loop over the matches
RECURSIVE LibrariesFrom(_, _, _, _)
LibrariesFrom(matches, i, libraries, exists) ==
    IF i > Len(matches) THEN libraries
    ELSE LibrariesFrom(matches, i + 1,
             IF LibraryAccepted(Unescape(matches[i]), libraries, exists)
             THEN Append(libraries, Unescape(matches[i])) ELSE libraries,
             exists)

\* where: the steamapps directory that holds the file, "missing" when
\* neither does; readable: whether open() and read() succeed
ParseLibraryFoldersVdf(steam_path, where, readable, tokens, exists) ==
    IF where = "missing" THEN <<steam_path>>
    ELSE IF ~readable THEN <<steam_path>>
    ELSE LibrariesFrom(MatchesFrom(tokens, 1), 1, <<steam_path>>, exists)

RECURSIVE TokenSeqs(_)
TokenSeqs(n) ==
    IF n = 0 THEN {<<>>}
    ELSE TokenSeqs(n - 1)
         \cup {Append(t, k) : t \in {u \in TokenSeqs(n - 1) : Len(u) = n - 1},
                              k \in VdfTokens}

VdfDisk == {"/lib1", "/lib2", "D:\\Lib"}

NoVdf ==
    [where |-> "missing", readable |-> FALSE, tokens |-> <<>>,
     exists |-> {}, done |-> FALSE, result |-> <<>>]

_parse_library_folders_vdf ==
    /\ ~vdf.done
    /\ vdf' = [vdf EXCEPT
                 !.done = TRUE,
                 !.result = ParseLibraryFoldersVdf(SteamPath, vdf.where,
                                vdf.readable, vdf.tokens, vdf.exists)]
    /\ UNCHANGED <<game_path, vscripts_path, command_file, response_file,
                   running, watcher_thread, last_response_time, active_game,
                   command_count, session_id, gmod_bridge, mapbase_bridge,
                   files, dirs, now, listener, threads, app, env, obs,
                   resolve, spawner, scene, poll, call>>

(***************************************************************************)
(* auto_spawner.nut: the globals of the script and its functions.  A cube  *)
(* of g_spawned_cubes is "valid" or "invalid" (cube.IsValid()).            *)
(***************************************************************************)
MaxAttempts == 7

NumSpawnMethods == 4

\* Time() < 3.0, the game's clock counted in half seconds
SpawnDelay == 6

\* the root table before the script has run: no g_ slot exists
FreshSpawner ==
    [loaded |-> FALSE, g_auto_spawn_initialized |-> FALSE,
     g_spawned_cubes |-> <<>>, g_spawn_attempts |-> 0,
     g_spawn_method_index |-> 0, time |-> 0]

SpawnerUnchanged ==
    UNCHANGED <<game_path, vscripts_path, command_file, response_file,
                running, watcher_thread, last_response_time, active_game,
                command_count, session_id, gmod_bridge, mapbase_bridge,
                files, dirs, now, listener, threads, app, env, obs,
                resolve, vdf, scene, poll, call>>

\* a faulty reset that forgets the list
ResetSpawnerKeepCubes(s) ==
    [s EXCEPT !.g_auto_spawn_initialized = FALSE, !.g_spawn_attempts = 0]

\* g_spawned_cubes = []; g_auto_spawn_initialized = false;
\* g_spawn_attempts = 0
ResetSpawner(s) ==
    [s EXCEPT !.g_spawned_cubes = <<>>,
              !.g_auto_spawn_initialized = FALSE,
              !.g_spawn_attempts = 0]

\* the script runs (again): the guarded block creates the slots once
RunAutoSpawnerScript ==
    /\ spawner' = IF spawner.loaded THEN spawner
                  ELSE [FreshSpawner EXCEPT !.loaded = TRUE,
                                            !.time = spawner.time]
    /\ SpawnerUnchanged

\* the game's clock advances; past 3.0 its value no longer matters
GameTimePasses ==
    /\ spawner.time < SpawnDelay
    /\ spawner' = [spawner EXCEPT !.time = @ + 1]
    /\ SpawnerUnchanged

\* SpawnCubeSmartly: the methods are tried in turn from
\* g_spawn_method_index; outcome "spawned" appends the cube found by the
\* method and moves the index behind it, "none" finds no place, "throw"
\* leaves through an exception of a method before any append
SpawnCubeSmartly(s, outcome, i) ==
    IF outcome = "spawned"
    THEN [s EXCEPT
            !.g_spawned_cubes = Append(@, "valid"),
            !.g_spawn_method_index =
                (((((s.g_spawn_method_index % NumSpawnMethods) + i)
                      % NumSpawnMethods) + 1) % NumSpawnMethods)]
    ELSE s

InitializeAutoSpawner ==
    /\ spawner.loaded
    /\ spawner.g_spawn_attempts < MaxAttempts
    /\ \E outcome \in {"spawned", "none", "throw"},
          i \in 0..(NumSpawnMethods - 1) :
         spawner' =
           IF spawner.g_auto_spawn_initialized THEN spawner
           ELSE IF spawner.time < SpawnDelay THEN spawner
           ELSE LET counted == [spawner EXCEPT !.g_spawn_attempts = @ + 1]
                    tried == SpawnCubeSmartly(counted, outcome, i)
                IN  IF outcome = "throw" THEN tried
                    ELSE IF outcome = "spawned"
                            \/ tried.g_spawn_attempts >= 6
                    THEN [tried EXCEPT !.g_auto_spawn_initialized = TRUE]
                    ELSE tried
    /\ SpawnerUnchanged

CheckRespawn ==
    /\ spawner.loaded
    /\ spawner' =
         IF /\ spawner.g_auto_spawn_initialized
            /\ Len(spawner.g_spawned_cubes) > 0
            /\ spawner.g_spawned_cubes[1] = "invalid"
         THEN ResetSpawner(spawner)
         ELSE spawner
    /\ SpawnerUnchanged

TeleportToCube ==
    /\ spawner.loaded
    /\ spawner' =
         IF /\ Len(spawner.g_spawned_cubes) > 0
            /\ spawner.g_spawned_cubes[1] = "invalid"
         THEN ResetSpawner(spawner)
         ELSE spawner
    /\ SpawnerUnchanged

OnGameEvent_round_start ==
    /\ spawner.loaded
    /\ spawner' = ResetSpawner(spawner)
    /\ SpawnerUnchanged

\* the game removes a cube (it breaks, or the AWP output kills it)
CubeRemoved ==
    /\ spawner.loaded
    /\ \E k \in DOMAIN spawner.g_spawned_cubes :
         /\ spawner.g_spawned_cubes[k] = "valid"
         /\ spawner' = [spawner EXCEPT !.g_spawned_cubes[k] = "invalid"]
    /\ SpawnerUnchanged

(***************************************************************************)
(* The event loop of Sourcebox.main.  An event carries what the two click  *)
(* tests return at the mouse position (hit: the type of the object         *)
(* check_object_click finds, triangle: check_triangle_click) and whether   *)
(* pygame.display.set_mode succeeds.  pc is "events" in the loop and names *)
(* the bridge call a cube click has reached otherwise.                     *)
(***************************************************************************)
NoEvent ==
    [type |-> "none", key |-> "", button |-> 0, hit |-> "none",
     triangle |-> FALSE, display_ok |-> TRUE]

MainScene ==
    [current_scene |-> "main", running |-> TRUE, pc |-> "events",
     display |-> "original", music |-> TRUE, cursor |-> TRUE,
     cube_rotating |-> FALSE, last |-> NoEvent, prev |-> "main"]

SceneEvents ==
    {[NoEvent EXCEPT !.type = "QUIT"]}
    \cup {[NoEvent EXCEPT !.type = "KEYDOWN", !.key = k] :
             k \in {"K_ESCAPE", "K_SPACE"}}
    \cup [type : {"MOUSEBUTTONDOWN"}, key : {""}, button : 1..3,
          hit : {"none", "sphere", "cone", "cube"}, triangle : BOOLEAN,
          display_ok : BOOLEAN]

\* a faulty click test that takes every object for the sphere
SceneAfterClickAnyObject(current_scene, e) ==
    IF current_scene = "main" /\ e.hit # "none" THEN "error"
    ELSE IF current_scene = "cone" /\ e.triangle THEN "main"
    ELSE current_scene

\* current_scene after a left click; set_mode raising in the cone branch
\* leaves before the assignment
SceneAfterClick(current_scene, e) ==
    IF current_scene = "main"
    THEN IF e.hit = "sphere" THEN "error"
         ELSE IF e.hit = "cone" /\ e.display_ok THEN "cone"
         ELSE current_scene
    ELSE IF current_scene = "cone" /\ e.triangle THEN "main"
    ELSE current_scene

\* the cube's rotation after its click
CubeClicked(s) == [s EXCEPT !.cube_rotating = TRUE, !.pc = "events"]

LeftClick(s, e) ==
    LET sc == SceneAfterClick(s.current_scene, e)
        t == [s EXCEPT !.current_scene = sc]
    IN  IF s.current_scene = "main"
        THEN IF e.hit = "sphere"
             THEN [t EXCEPT !.music = FALSE, !.cursor = FALSE]
             ELSE IF e.hit = "cone"
             THEN IF e.display_ok
                  THEN [t EXCEPT !.display = "cone", !.music = TRUE]
                  ELSE [t EXCEPT !.running = FALSE]
             ELSE IF e.hit = "cube"
             THEN IF app.bridge /\ active_game # None
                  THEN [t EXCEPT !.pc = "spawn"]
                  ELSE CubeClicked(t)
             ELSE t
        ELSE IF s.current_scene = "cone" /\ e.triangle
        THEN IF e.display_ok
             THEN [t EXCEPT !.display = "original", !.cursor = TRUE,
                            !.music = TRUE]
             ELSE [t EXCEPT !.running = FALSE]
        ELSE t

HandleEvent(e) ==
    /\ scene.running
    /\ scene.pc = "events"
    /\ scene' =
         [(IF e.type = "QUIT" THEN [scene EXCEPT !.running = FALSE]
           ELSE IF e.type = "KEYDOWN"
           THEN IF e.key = "K_ESCAPE" THEN [scene EXCEPT !.running = FALSE]
                ELSE scene
           ELSE IF e.button = 1 THEN LeftClick(scene, e)
           ELSE scene)
          EXCEPT !.last = e, !.prev = scene.current_scene]
    /\ UNCHANGED <<game_path, vscripts_path, command_file, response_file,
                   running, watcher_thread, last_response_time, active_game,
                   command_count, session_id, gmod_bridge, mapbase_bridge,
                   files, dirs, now, listener, threads, app, env, obs,
                   resolve, vdf, spawner, poll, call>>

\* bridge.spawn("props/srcbox/srcbox.mdl", 200) of the cube click
CubeClickSpawn(outcome, legacy) ==
    /\ scene.pc = "spawn"
    /\ SourceBridge_spawn("props/srcbox/srcbox.mdl", 200, outcome, legacy)
    /\ scene' = [scene EXCEPT !.pc = "reinstall"]
    /\ UNCHANGED <<resolve, vdf, spawner, poll, call>>

\* bridge.reinstall_awp_outputs() of the cube click, then the rotation
CubeClickReinstall(outcome) ==
    /\ scene.pc = "reinstall"
    /\ SourceBridge_reinstall_awp_outputs(outcome)
    /\ scene' = CubeClicked(scene)
    /\ UNCHANGED <<resolve, vdf, spawner, poll, call>>


(***************************************************************************)
(* Initial states.                                                         *)
(***************************************************************************)
NoObs ==
    [ret |-> Ret("none", "None", "none", "none"), sb_written |-> <<>>,
     gm_written |-> <<>>, cmd_polls |-> 0, cmd_execs |-> 0,
     attempts |-> <<>>, seen_session |-> 0, lost |-> {}]

\* the state right after SourceBridge() returned
InitBridgeOn(bridges, sessions, builds) ==
    /\ \E b \in bridges :
         /\ active_game = b.active_game
         /\ game_path = b.game_path
         /\ vscripts_path = b.vscripts_path
         /\ command_file = b.command_file
         /\ response_file = b.response_file
         /\ gmod_bridge = b.gmod_bridge
         /\ mapbase_bridge = b.mapbase_bridge
         /\ dirs \in {{b.game_path} \ {NoPath}}
                     \cup (IF b.gmod_bridge.data_path # NoPath THEN {{}} ELSE {})
    /\ running = FALSE
    /\ watcher_thread = 0
    /\ last_response_time = 0
    /\ command_count = 0
    /\ session_id \in sessions
    /\ files = <<>>
    /\ now = 1
    /\ listener \in builds
    /\ threads = [t \in ThreadIds |-> NoThread]
    /\ app = [entry |-> "api", pc |-> "running", bridge |-> TRUE]
    /\ env = NoEnv
    /\ obs = NoObs

InitBridge(bridges, sessions) ==
    InitBridgeOn(bridges, sessions, {FreshListener})

\* the parts of the program that a specification leaves out are at rest
Elsewhere ==
    /\ resolve = NoResolve
    /\ vdf = NoVdf
    /\ spawner = FreshSpawner
    /\ scene = MainScene
    /\ poll = NoPoll
    /\ call = NoCall

(***************************************************************************)
(* Spec: the calls a program makes on a constructed bridge.                *)
(***************************************************************************)
Init == InitBridge(RuntimeBridges, {MaxSession}) /\ Elsewhere

Next ==
    \/ \E m \in ModelPaths, d \in Distances, o \in WriteOutcomes,
          l \in {"True", "False"} : spawn(m, d, o, l)
    \/ \E o \in WriteOutcomes : reinstall_awp_outputs(o)
    \/ \E o \in WriteOutcomes : ping(o)
    \/ start_listening
    \/ \E rm_ok \in BOOLEAN : stop(rm_ok)

Spec == Init /\ [][Next]_vars

(***************************************************************************)
(* SpecListener: the listener polling a command file that any writer may   *)
(* replace.                                                                *)
(***************************************************************************)
InitListener ==
    /\ InitBridge({SupportedGameFields,
                   MapbaseFields("Mapbase: mbmod", MapbaseModPath)}, Sessions)
    /\ Elsewhere

NextListener ==
    \/ LoadListener
    \/ \E read_ok, resp_ok \in BOOLEAN, g \in GameSituations,
          a \in AwpSituations : CheckPythonCommand(read_ok, g, a, resp_ok)
    \/ \E c \in ForeignCommands : ForeignWrite(c)

SpecListener == InitListener /\ [][NextListener]_vars

(***************************************************************************)
(* SpecWatcher: start_listening, stop and the watcher threads, with the    *)
(* game writing responses.  FairWatcher adds that a thread that can take a *)
(* step is eventually scheduled.                                           *)
(***************************************************************************)
GameResponses == {Response("spawned", "models/props/srcbox/srcbox.mdl")}

NextWatcher ==
    \/ start_listening
    \/ \E rm_ok \in BOOLEAN : stop(rm_ok)
    \/ \E t \in ThreadIds, st \in StatOutcomes : _watch_responses(t, st)
    \/ \E r \in GameResponses : GameResponds(r)
    \/ Tick

InitWatcher ==
    /\ InitBridge({SupportedGameFields, NoGameFields}, {MaxSession})
    /\ Elsewhere

SpecWatcher == InitWatcher /\ [][NextWatcher]_vars

FairWatcher ==
    /\ SpecWatcher
    /\ \A t \in ThreadIds :
         WF_vars(\E st \in StatOutcomes : _watch_responses(t, st))

(***************************************************************************)
(* SpecStartup: an entry point constructs the bridge on some machine and   *)
(* runs its start-up code.                                                 *)
(***************************************************************************)
InitStartup ==
    /\ env \in Environments
    /\ app \in [entry : Entries, pc : {"start"}, bridge : {TRUE}]
    /\ files = EnvFiles(env)
    /\ dirs = EnvDirs(env)
    /\ active_game = None
    /\ game_path = NoPath
    /\ vscripts_path = NoPath
    /\ command_file = NoPath
    /\ response_file = NoPath
    /\ gmod_bridge = NoGmodBridge
    /\ mapbase_bridge = NoPath
    /\ running = FALSE
    /\ watcher_thread = 0
    /\ last_response_time = 0
    /\ command_count = 0
    /\ session_id = 0
    /\ now = 1
    /\ listener = FreshListener
    /\ threads = [t \in ThreadIds |-> NoThread]
    /\ obs = NoObs
    /\ Elsewhere

InstallOutcomes == {"ok", "perm"}

NextStartup ==
    \/ \E s \in Sessions, pick \in FirstListed(env) :
          SourceBridge_init(s, pick)
    \/ \E o \in InstallOutcomes : install_listener(o)
    \/ \E o \in InstallOutcomes : install_picker(o)
    \/ \E o \in InstallOutcomes : install_awp_quit(o)
    \/ \E o \in InstallOutcomes : install_auto_spawner(o)
    \/ \E o \in InstallOutcomes : setup_mapspawn(o)
    \/ setup_autoexec
    \/ startup_start_listening

SpecStartup == InitStartup /\ [][NextStartup]_vars

(***************************************************************************)
(* Properties of the listener, checked under SpecListener.                 *)
(***************************************************************************)
\* C1: while the command file stays as it is, the listener executes its
\* command at most once, on the first poll that sees it, and only when the
\* session is not 0 and the id is above 0 and above last_command_id (as it
\* stands at the id test, i.e. 0 when the poll has just adopted a new
\* session); a command with a missing or zero session or with an id that is
\* not above last_command_id is not executed and gets no response.
C1_ExecutedAtMostOnce ==
    /\ [](obs.cmd_execs <= 1)
    /\ [][LET text == FileText(ListenerCommandFile)
              c == text[1]
              session == IF Len(c.session) = 1 THEN c.session[1] ELSE 0
              id == IF Len(c.id) = 1 THEN c.id[1] ELSE 0
              last == IF session > 0 /\ session # listener.current_session_id
                      THEN 0 ELSE listener.last_command_id
          IN  (/\ text # <<>>
               /\ FileState(files', ListenerCommandFile)
                    = FileState(files, ListenerCommandFile))
              => /\ obs'.cmd_execs > obs.cmd_execs
                      => /\ obs.cmd_polls = 0
                         /\ session # 0
                         /\ id > 0
                         /\ id > last
                 /\ (session = 0 \/ id <= last)
                      => /\ obs'.cmd_execs = obs.cmd_execs
                         /\ FileState(files', ListenerResponseFile)
                              = FileState(files, ListenerResponseFile)
                         /\ listener'.last_command_id
                              \in {last, listener.last_command_id}]_vars

\* a command was executed and the same file was polled again
C1_Witness == obs.cmd_execs = 1 /\ obs.cmd_polls = 2

(***************************************************************************)
(* Properties of the bridge's calls, checked under Spec.                   *)
(***************************************************************************)
\* C2: the ids of the commands a bridge object writes are strictly
\* increasing, for SourceBridge (spawn, reinstall_awp_outputs) and for
\* GModBridge (spawn_model, ping) alike, and neither counter ever goes back.
C2_CommandIdsIncrease ==
    /\ [](/\ \A i, j \in DOMAIN obs.sb_written :
                i < j => obs.sb_written[i].id < obs.sb_written[j].id
          /\ \A i, j \in DOMAIN obs.gm_written :
                i < j => obs.gm_written[i].id < obs.gm_written[j].id)
    /\ [][/\ command_count' >= command_count
          /\ gmod_bridge'.command_id >= gmod_bridge.command_id]_vars

\* a spawn and a later reinstall_awp_outputs both wrote their command
C2_Witness ==
    \E i, j \in DOMAIN obs.sb_written :
        /\ i < j
        /\ obs.sb_written[i].op = "spawn"
        /\ obs.sb_written[j].op = "reinstall"

\* C3: session_id never changes after construction and every command the
\* bridge writes carries it, whatever calls of spawn, reinstall_awp_outputs,
\* start_listening and stop came before.
C3_SessionFixed ==
    /\ [](\A i \in DOMAIN obs.sb_written :
             obs.sb_written[i].session = session_id)
    /\ [][session_id' = session_id]_vars

\* two commands were written, and start_listening and stop were called
C3_Witness ==
    /\ Len(obs.sb_written) >= 2
    /\ watcher_thread # 0
    /\ ~running

\* C9: when the write of the command file fails, spawn and
\* reinstall_awp_outputs return False; no exception reaches the caller.
C9_WriteFailureReturnsFalse ==
    /\ obs.ret.op \in {"spawn", "reinstall"}
          => obs.ret.value \in {"True", "False"}
    /\ (obs.ret.op \in {"spawn", "reinstall"}
        /\ obs.ret.write \in {"perm", "err"})
          => obs.ret.value = "False"

\* spawn took the VScript path and the write failed after open()
C9_Witness ==
    /\ obs.ret.op = "spawn"
    /\ obs.ret.via = "vscript"
    /\ obs.ret.write = "err"

(***************************************************************************)
(* Properties of the watcher, checked under SpecWatcher / FairWatcher.     *)
(***************************************************************************)
\* C6: at most one watcher thread is alive at any time, for any sequence
\* of start_listening() and stop() calls.
C6_AtMostOnePoller == Cardinality(LiveThreads) <= 1

\* C7: once running is False a live watcher thread terminates (unless
\* running is set again first), also when its last iteration raised; a
\* thread that tests the loop condition while running is False leaves.
C7_WatcherTerminates ==
    /\ \A t \in ThreadIds :
         (Alive(t) /\ ~running) ~> (~Alive(t) \/ running)
    /\ [][\A t \in ThreadIds :
            (threads[t].pc = "test" /\ ~running /\ threads'[t] # threads[t])
               => threads'[t].pc = "dead"]_vars

\* a thread whose iteration raised has terminated
C7_Witness ==
    \E t \in ThreadIds : threads[t].pc = "dead" /\ threads[t].raised

(***************************************************************************)
(* Properties of start-up, checked under SpecStartup.                      *)
(***************************************************************************)
\* C4: when the constructor found an active game with a VScript directory,
\* the start-up code of Sourcebox.main ends with the poller started and
\* the bridge still available to the running program.
C4_StartupReachesListening ==
    (/\ app.entry = "Sourcebox.main"
     /\ app.pc = "running"
     /\ active_game # None
     /\ vscripts_path # NoPath)
    => (app.bridge /\ watcher_thread # 0)

\* C5: when the constructor has returned, neither command_file nor
\* response_file exists (nothing writes them during start-up), whatever the
\* kind of active game.
C5_NoStaleFiles ==
    app.pc # "start"
    => /\ command_file \notin DOMAIN files
       /\ response_file \notin DOMAIN files

\* C8: for a Mapbase mod the script files written by
\* MapbaseBridge.install_scripts are never replaced by the standard
\* installers, for either entry point.
C8_MapbaseScriptsKept ==
    mapbase_bridge # NoPath
    => \A n \in MapbaseScripts :
          LET q == Join(vscripts_path, n)
          IN  q \in DOMAIN files
              => files[q].text = <<Script(n, "MapbaseBridge")>>

\* the -game argument the classification acts on: the first that holds one
\* of the names (0 when none does)
DecidingArg ==
    LET args == env.proc.game_args
        names(a) == \/ Contains(K_gmod9, a)
                    \/ Contains(K_garrysmod9, a)
                    \/ Contains(K_garrysmod10classic, a)
                    \/ Contains(K_garrysmod12, a)
                    \/ (Contains(K_garrysmod, a)
                        /\ ~Contains(K_garrysmod10, a))
        hits == {i \in DOMAIN args : names(Lower(args[i]))}
    IN  IF hits = {} THEN 0
        ELSE CHOOSE i \in hits : \A j \in hits : i <= j

\* C10: the names _setup_gmod_path is tried with follow the precedence
\* gmod9/garrysmod9, garrysmod10classic, garrysmod12, then plain garrysmod
\* (GMod 11 with a 'sourcemods' hint in the executable's path or any part
\* of the command line, else GMod 13 first and GMod 11 only after the
\* GMod 13 setup failed); an argument naming garrysmod10classic or
\* garrysmod12 is never tried or set up as GMod 11 or GMod 13.
C10_GmodPrecedence ==
    (env.kind = "gmod" /\ app.pc # "start")
    => LET tried == {obs.attempts[i].game : i \in DOMAIN obs.attempts}
           a == Lower(env.proc.game_args[DecidingArg])
           is9 == Contains(K_gmod9, a) \/ Contains(K_garrysmod9, a)
           is10 == Contains(K_garrysmod10classic, a)
           is12 == Contains(K_garrysmod12, a)
           hint == \/ Contains(K_sourcemods, Lower(env.proc.exe))
                   \/ env.proc.cmd_sourcemods
                   \/ \E i \in DOMAIN env.proc.game_args :
                         Contains(K_sourcemods, Lower(env.proc.game_args[i]))
       IN  IF DecidingArg = 0
           THEN obs.attempts = <<>> /\ ~IsGmodName(active_game)
           ELSE /\ (is10 \/ is12)
                     => /\ tried \cap {"Garry's Mod 11", "Garry's Mod 13"} = {}
                        /\ active_game \notin
                              {"Garry's Mod 11", "Garry's Mod 13"}
                /\ IF is9 THEN tried = {"Garry's Mod 9"}
                   ELSE IF is10 THEN tried = {"Garry's Mod 10"}
                   ELSE IF is12 THEN tried = {"Garry's Mod 12"}
                   ELSE IF hint THEN tried = {"Garry's Mod 11"}
                   ELSE /\ obs.attempts[1].game = "Garry's Mod 13"
                        /\ obs.attempts[1].ok => Len(obs.attempts) = 1
                        /\ \A i \in DOMAIN obs.attempts :
                              i > 1 => obs.attempts[i].game = "Garry's Mod 11"
                /\ IsGmodName(active_game) => active_game \in tried

\* plain garrysmod without a hint: the GMod 13 setup failed and the
\* fallback set GMod 11 up
C10_Witness ==
    /\ env.kind = "gmod"
    /\ app.pc # "start"
    /\ Len(obs.attempts) = 2
    /\ obs.attempts[1] = [game |-> "Garry's Mod 13", ok |-> FALSE]
    /\ obs.attempts[2] = [game |-> "Garry's Mod 11", ok |-> TRUE]
    /\ active_game = "Garry's Mod 11"

(***************************************************************************)
(* SpecResolve: one call of _resolve_game_path on some -game argument,     *)
(* executable path and disk.                                               *)
(***************************************************************************)
InitResolve ==
    /\ InitBridge({NoGameFields}, {MaxSession})
    /\ resolve \in [game_arg : ResolveArgs, exe_path : ResolveExes,
                    isdir : SUBSET ResolveDirs, done : {FALSE},
                    result : {NoPath}]
    /\ vdf = NoVdf
    /\ spawner = FreshSpawner
    /\ scene = MainScene
    /\ poll = NoPoll
    /\ call = NoCall

NextResolve == _resolve_game_path

SpecResolve == InitResolve /\ [][NextResolve]_vars

\* C11: _resolve_game_path returns None or an existing directory, namely
\* the first existing one of: the argument if absolute, exe_dir/arg,
\* parent(exe_dir)/arg, <steamapps root>/sourcemods/arg, <steamapps
\* root>/common/arg; None for an empty argument or when none exists; and
\* without an exe path only an absolute argument resolves.
C11_FirstExistingCandidate ==
    resolve.done =>
      LET arg == cleaned(resolve.game_arg)
          exe_dir == dirname(resolve.exe_path)
          root == steamapps_root(exe_dir)
          under(d) == normpath(PathJoin(d, arg))
          listed == <<IF IsAbs(arg) THEN normpath(arg) ELSE NoPath,
                      IF exe_dir # <<>> THEN under(exe_dir) ELSE NoPath,
                      IF exe_dir # <<>> THEN under(dirname(exe_dir))
                      ELSE NoPath,
                      IF root # NoPath THEN under(Append(root, "sourcemods"))
                      ELSE NoPath,
                      IF root # NoPath THEN under(Append(root, "common"))
                      ELSE NoPath>>
          found == {i \in 1..5 : listed[i] # NoPath
                                 /\ listed[i] \in resolve.isdir}
          empty == ~resolve.game_arg.quoted /\ resolve.game_arg.path = <<>>
      IN  /\ resolve.result = NoPath \/ resolve.result \in resolve.isdir
          /\ empty => resolve.result = NoPath
          /\ (~empty /\ found = {}) => resolve.result = NoPath
          /\ (~empty /\ found # {})
                => resolve.result
                     = listed[CHOOSE i \in found : \A j \in found : i <= j]
          /\ (resolve.exe_path = NoPath /\ resolve.result # NoPath)
                => IsAbs(arg)

\* a relative argument resolved below the library's sourcemods directory
\* although the library's common directory holds the same name
C11_Witness ==
    /\ resolve.done
    /\ resolve.game_arg.path = <<"mod">>
    /\ resolve.result = <<"/", "lib", "steamapps", "sourcemods", "mod">>
    /\ <<"/", "lib", "steamapps", "common", "mod">> \in resolve.isdir

(***************************************************************************)
(* SpecVdf: one call of _parse_library_folders_vdf on some file and disk.  *)
(***************************************************************************)
InitVdf ==
    /\ InitBridge({NoGameFields}, {MaxSession})
    /\ vdf \in [where : {"steamapps", "SteamApps", "missing"},
                readable : BOOLEAN, tokens : TokenSeqs(MaxTokens),
                exists : {{SteamPath} \cup d : d \in SUBSET VdfDisk},
                done : {FALSE}, result : {<<>>}]
    /\ resolve = NoResolve
    /\ spawner = FreshSpawner
    /\ scene = MainScene
    /\ poll = NoPoll
    /\ call = NoCall

NextVdf == _parse_library_folders_vdf

SpecVdf == InitVdf /\ [][NextVdf]_vars

\* C12: the list returned by _parse_library_folders_vdf starts with
\* steam_path and holds no path twice; every further element exists on disk
\* and is the value behind a "path" key of the file, in file order; when
\* the file is missing or cannot be read the list is exactly [steam_path].
C12_LibraryList ==
    vdf.done =>
      LET r == vdf.result
          t == vdf.tokens
          at(v) == {i \in 1..(Len(t) - 1) :
                       t[i] = "path" /\ Unescape(t[i + 1]) = v}
          first(v) == CHOOSE i \in at(v) : \A j \in at(v) : i <= j
      IN  /\ Len(r) >= 1
          /\ r[1] = SteamPath
          /\ \A k, l \in DOMAIN r : k # l => r[k] # r[l]
          /\ \A k \in 2..Len(r) : r[k] \in vdf.exists /\ at(r[k]) # {}
          /\ \A k, l \in 2..Len(r) : k < l => first(r[k]) < first(r[l])
          /\ (vdf.where = "missing" \/ ~vdf.readable) => r = <<SteamPath>>

\* two libraries of the file were added in file order
C12_Witness ==
    /\ vdf.done
    /\ vdf.tokens = <<"path", "/lib2", "path", "/lib1">>
    /\ vdf.result = <<SteamPath, "/lib2", "/lib1">>

(***************************************************************************)
(* SpecSpawner: the auto-spawner's functions called in any order.          *)
(***************************************************************************)
InitSpawner ==
    /\ InitBridge({NoGameFields}, {MaxSession})
    /\ spawner = FreshSpawner
    /\ resolve = NoResolve
    /\ vdf = NoVdf
    /\ scene = MainScene
    /\ poll = NoPoll
    /\ call = NoCall

NextSpawner ==
    \/ RunAutoSpawnerScript
    \/ GameTimePasses
    \/ InitializeAutoSpawner
    \/ CheckRespawn
    \/ TeleportToCube
    \/ OnGameEvent_round_start
    \/ CubeRemoved

SpecSpawner == InitSpawner /\ [][NextSpawner]_vars

\* C13: g_spawned_cubes never holds more than one cube, and when it holds
\* one, g_auto_spawn_initialized is true, in whatever order
\* InitializeAutoSpawner, CheckRespawn, TeleportToCube and round_start run.
C13_AtMostOneCube ==
    /\ Len(spawner.g_spawned_cubes) <= 1
    /\ Len(spawner.g_spawned_cubes) = 1 => spawner.g_auto_spawn_initialized

\* a second cube was spawned after the first one was lost and the spawner
\* reset: the list holds one valid cube and the method index has advanced
\* twice
C13_Witness ==
    /\ spawner.g_spawned_cubes = <<"valid">>
    /\ spawner.g_auto_spawn_initialized
    /\ spawner.g_spawn_method_index = 2
    /\ spawner.g_spawn_attempts = 3

(***************************************************************************)
(* SpecScene: the event loop of Sourcebox.main on a constructed bridge.    *)
(***************************************************************************)
InitScene ==
    /\ InitBridge({SupportedGameFields, NoGameFields}, {MaxSession})
    /\ scene = MainScene
    /\ poll = NoPoll
    /\ call = NoCall
    /\ resolve = NoResolve
    /\ vdf = NoVdf
    /\ spawner = FreshSpawner

NextScene ==
    \/ \E e \in SceneEvents : HandleEvent(e)
    \/ \E o \in WriteOutcomes, l \in {"True", "False"} : CubeClickSpawn(o, l)
    \/ \E o \in WriteOutcomes : CubeClickReinstall(o)

SpecScene == InitScene /\ [][NextScene]_vars

\* C14: the current scene is always main, error or cone, and it changes
\* only from main to error on a left click that hits the sphere, from main
\* to cone on a left click that hits the cone, and from cone to main on a
\* left click on the triangle; a click on the cube, a click that hits
\* nothing and a click of another button leave the scene as it is.
C14_SceneTransitions ==
    /\ [](scene.current_scene \in {"main", "error", "cone"})
    /\ [][LET a == scene.current_scene
              b == scene'.current_scene
              e == scene'.last
              left == e.type = "MOUSEBUTTONDOWN" /\ e.button = 1
          IN  /\ a # b =>
                   \/ a = "main" /\ b = "error" /\ left /\ e.hit = "sphere"
                   \/ a = "main" /\ b = "cone" /\ left /\ e.hit = "cone"
                   \/ a = "cone" /\ b = "main" /\ left /\ e.triangle
              /\ (/\ scene' # scene
                  /\ scene.pc = "events"
                  /\ e.type = "MOUSEBUTTONDOWN"
                  /\ \/ e.button # 1
                     \/ a = "main" /\ e.hit \in {"cube", "none"}
                     \/ a = "cone" /\ ~e.triangle) => b = a]_vars

\* the scene came back from cone to main by a left click on the triangle,
\* after a cube click had made its two bridge calls
C14_Witness ==
    /\ scene.prev = "cone"
    /\ scene.current_scene = "main"
    /\ scene.last.type = "MOUSEBUTTONDOWN"
    /\ scene.last.button = 1
    /\ scene.last.triangle
    /\ scene.cube_rotating
    /\ command_count = 2

(***************************************************************************)
(* SpecSession: the listener of SpecListener in a game built with either   *)
(* script interpreter.                                                     *)
(***************************************************************************)
InitSession ==
    /\ InitBridgeOn({SupportedGameFields,
                     MapbaseFields("Mapbase: mbmod", MapbaseModPath)},
                    {MaxSession}, ListenerBuilds)
    /\ Elsewhere

NextSession == NextListener

SpecSession == InitSession /\ [][NextSession]_vars

\* C15: the first poll of a command with id 1 whose positive session is
\* not the one the listener saw last executes it, whatever id the earlier
\* session reached.
C15_NewSessionExecuted ==
    [][LET c == FileText(ListenerCommandFile)
       IN  (/\ obs.cmd_polls = 0
            /\ obs'.cmd_polls = 1
            /\ c # <<>>
            /\ Len(c[1]["session"]) = 1
            /\ c[1]["session"][1] > 0
            /\ c[1]["session"][1] # obs.seen_session
            /\ c[1]["id"] = <<1>>) => obs'.cmd_execs = 1]_vars

\* C16: last_response_time never decreases, and no two calls of
\* _handle_response are made for one modification time of the response
\* file: a thread that has passed the comparison is the only one to handle
\* that version.
C16_HandledAtMostOnce ==
    /\ [][last_response_time' >= last_response_time]_vars
    /\ [](\A t, u \in ThreadIds :
            (/\ t # u
             /\ threads[t].pc = "handle"
             /\ threads[u].pc = "handle")
            => threads[t].modified_time # threads[u].modified_time)

(***************************************************************************)
(* SpecChannel: a bridge on a game with VScript writes commands while the  *)
(* game's listener polls the command file.                                 *)
(***************************************************************************)
InitChannel ==
    /\ InitBridge({SupportedGameFields,
                   MapbaseFields("Mapbase: mbmod", MapbaseModPath)},
                  {MaxSession})
    /\ Elsewhere

NextChannel ==
    \/ \E m \in ModelPaths, d \in Distances, o \in WriteOutcomes,
          l \in {"True", "False"} : spawn(m, d, o, l)
    \/ \E o \in WriteOutcomes : reinstall_awp_outputs(o)
    \/ LoadListener
    \/ \E read_ok, resp_ok \in BOOLEAN, g \in GameSituations,
          a \in AwpSituations : CheckPythonCommand(read_ok, g, a, resp_ok)

SpecChannel == InitChannel /\ [][NextChannel]_vars

\* C17: a command that the bridge replaced by its next command before the
\* listener polled it is never executed, and no response is written for
\* it: whatever a poll executes or answers is not such a command.
C17_ReplacedNeverExecuted ==
    [][(\/ obs'.cmd_execs > obs.cmd_execs
        \/ FileState(files', ListenerResponseFile)
             # FileState(files, ListenerResponseFile))
       => /\ obs'.cmd_execs = obs.cmd_execs + 1
          /\ listener'.last_command_id \notin obs.lost
          /\ FileText(ListenerCommandFile)[1].id
               = <<listener'.last_command_id>>]_vars

\* the first command was replaced unpolled, the second one was executed and
\* answered
C17_Witness ==
    /\ obs.lost = {1}
    /\ obs.cmd_execs = 1
    /\ listener.last_command_id = 2
    /\ ListenerResponseFile \in DOMAIN files

\* C18: the commands written to one command file all carry the same
\* session, and their ids increase strictly in write order (so no two of
\* them have the same id), whichever of the two bridge objects wrote them.
C18_OneSessionIncreasingIds ==
    LET sb == obs.sb_written
        gm == obs.gm_written
        all == {sb[i] : i \in DOMAIN sb} \cup {gm[i] : i \in DOMAIN gm}
    IN  /\ \A a, b \in all : a.file = b.file => a.session = b.session
        /\ \A i, j \in DOMAIN sb :
             (i < j /\ sb[i].file = sb[j].file) => sb[i].id < sb[j].id
        /\ \A i, j \in DOMAIN gm :
             (i < j /\ gm[i].file = gm[j].file) => gm[i].id < gm[j].id
        /\ \A i \in DOMAIN sb, j \in DOMAIN gm :
             sb[i].file = gm[j].file => sb[i].id # gm[j].id

(***************************************************************************)
(* SpecResponse: the listener polls a command file that receives the       *)
(* commands a bridge writes and other texts with the same fields, with an  *)
(* observer.  Of the game's situations only the one the command meets is   *)
(* varied.                                                                 *)
(***************************************************************************)
CommandShapes ==
    {<<"spawn_model", "props/srcbox/srcbox.mdl", Num(200)>>,
     <<"spawn_model", "", Num(200)>>,
     <<"reinstall_awp", "", NoField>>,
     <<"", "", NoField>>,
     <<"noclip", "", NoField>>}

OtherCommands ==
    {Command(c[1], c[2], c[3], Num(id), Num(s)) :
        c \in CommandShapes, id \in 1..MaxCommands, s \in {0, MaxSession}}

\* the situations that make a difference to the command the file holds
PollSituations ==
    LET c == FileText(ListenerCommandFile)
        command == IF c = <<>> THEN "" ELSE c[1].command
    IN  IF command = "spawn_model" /\ c[1].model # ""
        THEN {<<g, "ok">> : g \in GameSituations}
        ELSE IF command = "reinstall_awp"
        THEN {<<"ok", a>> : a \in AwpSituations}
        ELSE {<<"ok", "ok">>}

InitResponse ==
    /\ InitBridge({SupportedGameFields,
                   MapbaseFields("Mapbase: mbmod", MapbaseModPath)},
                  {MaxSession})
    /\ Elsewhere

NextResponse ==
    \/ \E c \in OtherCommands : ForeignWrite(c)
    \/ LoadListener
    \/ \E resp_ok \in BOOLEAN, x \in PollSituations :
         ObservedPoll(TRUE, x[1], x[2], resp_ok)

SpecResponse == InitResponse /\ [][NextResponse]_vars

\* C19 (as first stated): a poll that accepts a command leaves its one
\* response in the response file.
C19_OneResponseWritten ==
    (poll.polled /\ poll.accepted) =>
        /\ Len(poll.sent) = 1
        /\ FileText(ListenerResponseFile) = <<poll.sent[1]>>

\* C19: for every command the listener accepts SendResponse is called
\* exactly once, with 'spawned' after a successful spawn, 'success' after
\* reinstall_awp ran, and 'error' otherwise; that response is what the
\* response file holds afterwards unless StringToFile failed, and then
\* nothing was written; an ignored command gets no call of SendResponse.
C19_OneResponseSent ==
    poll.polled =>
        /\ poll.accepted =>
             /\ Len(poll.sent) = 1
             /\ poll.sent[1].status =
                  IF /\ poll.command = "spawn_model"
                     /\ poll.model # ""
                     /\ poll.game = "ok"
                  THEN "spawned"
                  ELSE IF poll.command = "reinstall_awp" /\ poll.awp = "ok"
                  THEN "success"
                  ELSE "error"
             /\ poll.resp_ok =>
                  FileText(ListenerResponseFile) = <<poll.sent[1]>>
        /\ ~poll.accepted => poll.sent = <<>>

\* an accepted spawn whose trace threw was answered by one error
C19_Witness ==
    /\ poll.polled
    /\ poll.accepted
    /\ poll.game = "trace_throws"
    /\ poll.command = "spawn_model"
    /\ FileText(ListenerResponseFile)
         = <<Response("error", "execution failed")>>

(***************************************************************************)
(* SpecSpawn: calls of spawn on every kind of constructed bridge, with an  *)
(* observer.                                                               *)
(***************************************************************************)
InitSpawn == InitBridge(RuntimeBridges, {MaxSession}) /\ Elsewhere

NextSpawn ==
    \E m \in ModelPaths, d \in Distances, o \in WriteOutcomes,
       l \in {"True", "False"} : ObservedSpawn(m, d, o, l)

SpecSpawn == InitSpawn /\ [][NextSpawn]_vars

\* C20 (as first stated): every call of spawn uses a transport.
C20_EveryCallUsesATransport ==
    call.made => call.via # "none"

\* C20: a call of spawn that passes the two checks at its head (a game is
\* configured, model_path is a non-empty string) uses exactly one
\* transport: the GModBridge if one exists and is connected, else the
\* VScript command file if command_file is set and the active game is no
\* Garry's Mod, else legacy console injection; a call that fails a check
\* uses none and returns False.  For a Garry's Mod whose GModBridge is
\* missing or not connected spawn returns False and writes no command.
C20_OneTransportInOrder ==
    call.made =>
      LET valid == /\ ~(game_path = NoPath /\ active_game = None)
                   /\ call.model_path # ""
          gm == gmod_bridge.exists /\ is_connected(gmod_bridge)
          is_gmod == active_game \in GmodNames
          vs == command_file # NoPath /\ ~is_gmod
      IN  /\ ~valid => /\ call.via = "none"
                       /\ call.value = "False"
          /\ valid => call.via = IF gm THEN "gmod"
                                 ELSE IF vs THEN "vscript" ELSE "legacy"
          /\ call.gmod_numbered => call.via = "gmod"
          /\ call.vscript_numbered => call.via = "vscript"
          /\ call.changed \subseteq
               (IF call.via = "gmod" THEN {gmod_bridge.command_file}
                ELSE IF call.via = "vscript" THEN {command_file} ELSE {})
          /\ (is_gmod /\ ~gm) => /\ call.value = "False"
                                 /\ call.changed = {}
                                 /\ ~call.gmod_numbered
                                 /\ ~call.vscript_numbered

\* a valid call on a Garry's Mod without a GModBridge went to the legacy
\* path, returned False and wrote nothing
C20_Witness ==
    /\ call.made
    /\ call.model_path = "props/srcbox/srcbox.mdl"
    /\ active_game = "Garry's Mod 13"
    /\ ~gmod_bridge.exists
    /\ call.via = "legacy"
    /\ call.value = "False"
    /\ call.changed = {}

=============================================================================
